---------------------------- MODULE Spec2Model ----------------------------
(***************************************************************************)
(* State-machine model of smartmeter-gateway: the MqttClient bounded-queue *)
(* publisher, the ModbusSlave copy-on-write register snapshot service, the *)
(* Meter worker and the orchestrator (main) that wires them together.      *)
(*                                                                         *)
(* Three specifications share the variables:                               *)
(*   SpecMqtt   MqttClient driven by arbitrary publish() callers           *)
(*   SpecSlave  ModbusSlave writers (updateValues/updateDevice) and readers*)
(*   SpecSys    main + Meter + MqttClient (availability life cycle)        *)
(* Variables of a component that a specification does not exercise keep    *)
(* their initial value.                                                    *)
(***************************************************************************)
EXTENDS Integers, Sequences, FiniteSets, TLC

VARIABLES
  running_,            \* SignalHandler::running_
  \* ---- MqttClient ----
  cfg_queueSize,       \* cfg_.queueSize
  connected_,          \* MqttClient::connected_
  mutex_,              \* MqttClient::mutex_ : "free" or "worker"
  topicQueues_,        \* topic -> queue of messages
  lastPayloadHashes_,  \* partial map topic -> hash of last enqueued payload
  droppedCount_,       \* topic -> drops since last successful delivery
  wpc,                 \* position of MqttClient::run
  wTopic,              \* run(): index of the for-loop iterator in TopicOrder
  wPayload,            \* run(): copy of q.front() taken before unlocking
  wNotified,           \* cv_: a notify reached the sleeping worker
  mqttDtor,            \* progress of ~MqttClient
  \* ---- MqttClient history (not program state) ----
  nextId,              \* id given to the next accepted message
  brokerLog,           \* topic -> messages mosquitto_publish accepted, in order
  failedLog,           \* history: queued messages whose mosquitto_publish failed
  stopSeen,            \* history: run() has read !isRunning() at line 129 or 132
  acceptLog,           \* topic -> messages publish() enqueued, in order
  lastPublish,         \* the last publish() call: arguments and pre-state
  \* ---- ModbusSlave ----
  cfg_useFloatModel,   \* cfg_.useFloatModel
  heap,                \* allocated modbus_mapping_t objects: id -> tab_registers
  regs_,               \* ModbusSlave::regs_ : id of the published mapping
  deviceUpdated_,      \* ModbusSlave::deviceUpdated_
  uvpc, uvArg, uvOld, uvNew,   \* updateValues: position, argument, oldRegs, newRegs
  udpc, udArg, udOld, udNew,   \* updateDevice: position, argument, oldRegs, newRegs
  rdpc, rdReq, rdRegs, rdReply, \* request handler: position, query, regs, reply
  \* ---- ModbusSlave history (not program state) ----
  pubLog,              \* every regs_.store so far: the handle and its registers
  rdVersion,           \* index in pubLog of the mapping the handler loaded
  rdSeen,              \* uvReturn.pub at the moment the handler loaded regs_
  uvCalls, udCalls, rdCalls,   \* calls made so far
  uvReturn,            \* the last updateValues call that ran to its store
  udReturn,            \* the last updateDevice call that returned
  \* ---- ModbusSlave server worker and TCP client workers ----
  cfg_tcp,             \* cfg_.tcp is set: TCP mode, otherwise RTU
  spc,                 \* position of tcpClientHandler / rtuClientHandler
  revents,             \* pfd.revents of the last poll()
  sErr,                \* errno handed to ModbusSlave::handleResult
  clientThreads_,      \* number of client threads spawned so far
  cpc,                 \* client thread -> position of tcpClientWorker
  sStop,               \* history: why the server worker left its loop
  now,                 \* std::chrono::steady_clock::now(), in seconds
  lastActivity,        \* per client worker: lastActivity
  rc,                  \* per client worker: result of modbus_receive
  slaveDestroyed,      \* ~ModbusSlave has returned
  \* ---- Meter and main ----
  mainPc,              \* position of main()
  mpc,                 \* position of Meter::runLoop
  serialPort_,         \* Meter::serialPort_
  fdOpen,              \* the kernel's view: is the descriptor open
  updateCallback_, deviceCallback_, availabilityCallback_,  \* callback slots
  mErr,                \* error of the current runLoop iteration, if any
  telegrams,           \* telegrams read so far
  telegramKind,        \* what the lines of telegram_ are like
  crashed,             \* the process was aborted
  \* ---- Meter history (not program state) ----
  availCalls,          \* payloads passed to the availability callback, in order
  connects,            \* open() attempts of tryConnect so far
  iterCalls,           \* callbacks reached in the current runLoop iteration
  linkFaults,          \* broker connection lost or a publish failed
  \* ---- Meter::readTelegram, byte by byte ----
  rpc,                 \* position of readTelegram
  packet,              \* packet[0 .. packetPos-1]
  messageBegin,        \* a '/' has been seen
  telegramComplete,    \* the terminator has been seen
  telegram_,           \* Meter::telegram_
  rErr,                \* errno of the error readTelegram returned
  received,            \* history: every byte read() delivered, in order
  reads,               \* history: read() calls that delivered bytes
  \* ---- ModbusUtils::packToModbus on its own ----
  tab,                 \* dest->tab_registers
  packArg,             \* arguments of the last packToModbus call
  packRet,             \* its result: "none" (no call yet), "ok", "EINVAL"
  \* ---- SignalHandler on its own ----
  mtx_,                \* SignalHandler::mtx_ : "free" or the owning thread
  tpc,                 \* thread -> position in wait() / shutdown()
  hpc,                 \* thread -> position of the signal handler run on it
  cvNotified,          \* SignalHandler::cv_ : a notify_all reached the waiter
  signals,             \* history: signals delivered so far
  \* ---- Meter::updateValuesAndJson on its own ----
  cfg_grid,            \* cfg_.grid: 0 (no grid section) or the power factor in hundredths
  vpc,                 \* "parse" or "callback"
  values_,             \* Meter::values_
  cbValues,            \* history: the Values last passed to updateCallback_
  \* ---- which histories are kept ----
  recording            \* failedLog and stopSeen are recorded (MqttClient on its own)

mqttVars == <<cfg_queueSize, connected_, mutex_, topicQueues_,
              lastPayloadHashes_, droppedCount_, wpc, wTopic, wPayload,
              wNotified, mqttDtor, nextId, brokerLog, failedLog,
              stopSeen, acceptLog, lastPublish>>

uvVars == <<uvpc, uvArg, uvOld, uvNew, uvCalls, uvReturn>>
udVars == <<udpc, udArg, udOld, udNew, udCalls, udReturn>>
rdVars == <<rdpc, rdReq, rdRegs, rdReply, rdVersion, rdSeen, rdCalls>>
serverVars == <<cfg_tcp, spc, revents, sErr, clientThreads_, cpc, sStop,
               now, lastActivity, rc, slaveDestroyed>>
slaveVars == <<cfg_useFloatModel, heap, regs_, deviceUpdated_, pubLog,
               uvVars, udVars, rdVars, serverVars>>

meterVars == <<mpc, serialPort_, fdOpen, mErr, telegrams, telegramKind,
               availCalls, connects,
               iterCalls>>
callbackVars == <<updateCallback_, deviceCallback_, availabilityCallback_>>
sysVars == <<mainPc, meterVars, callbackVars, crashed, linkFaults>>

readVars == <<rpc, packet, messageBegin, telegramComplete, telegram_, rErr,
              received, reads>>

packVars == <<tab, packArg, packRet>>
sigVars == <<mtx_, tpc, hpc, cvNotified, signals>>
valVars == <<cfg_grid, vpc, values_, cbValues>>
histVars == <<recording>>

vars == <<running_, mqttVars, slaveVars, sysVars, readVars, packVars,
         sigVars, valVars, histVars>>

----------------------------------------------------------------------------
(* Bounds of the model *)

\* largest cfg_.queueSize explored
MaxQueueSize == 2
\* number of publish() calls explored in SpecMqtt
MaxPublish == 3
\* number of updateValues / updateDevice calls and of Modbus requests
\* explored in SpecSlave
MaxValueCalls == 2
MaxDeviceCalls == 2
MaxRequests == 2
\* number of open() attempts and of telegrams explored in SpecSys
MaxConnects == 2
MaxTelegrams == 1
MaxClients == 1
MaxReads == 2
\* Meter::BUFFER_SIZE (64) and Meter::TELEGRAM_SIZE (368), scaled down
BUFFER_SIZE == 3
TELEGRAM_SIZE == 5

----------------------------------------------------------------------------
(* MqttClient: data *)

\* std::map<std::string, ...> iterates its keys in lexicographic order
TopicOrder == <<"availability", "device", "values">>
Topics == {TopicOrder[i] : i \in DOMAIN TopicOrder}

\* payloads the publish() callers of SpecMqtt hand in
EnvPayloads == {"p1", "p2", "p3"}
EnvTopics == {"availability", "values"}

\* std::hash<std::string>: a function into size_t, hence not injective;
\* "p1" and "p3" stand for two payloads with the same hash.
Hash(payload) ==
  CASE payload = "p1" -> 11
    [] payload = "p3" -> 11
    [] payload = "p2" -> 12
    [] payload = "connected" -> 21
    [] payload = "disconnected" -> 22
    [] payload = "d1" -> 31
    [] payload = "v1" -> 41
    [] payload = "v2" -> 42
    [] OTHER -> 0

NoMessage == [payload |-> "", id |-> 0]

hasQueuedMessages == \E t \in Topics : topicQueues_[t] # <<>>

Messages(q) == {q[i] : i \in DOMAIN q}

\* history of run(): the worker has read isRunning() == false in the wait
\* predicate (line 129) or at line 132, the reads that lead to the drain
\* pass of a shutdown
ObserveStop == stopSeen' = (stopSeen \/ (recording /\ ~running_))

\* history of run(): the messages of log that are still in a queue
StillQueued(log, queues) ==
  {m \in log : recording /\ \E t \in Topics : m \in Messages(queues[t])}

\* mutant: a notify never reaches the worker
Notify_Lost == wNotified

\* cv_.notify_one() / notify_all(): only a thread blocked in wait() is woken
Notify == IF wpc = "sleeping" THEN TRUE ELSE wNotified

----------------------------------------------------------------------------
(* MqttClient::publish, mqtt_client.cpp:84-121.  The whole body runs under  *)
(* mutex_, so it is one step that needs the mutex to be free.              *)

\* mutant: no duplicate suppression at all
IsDuplicate_Never(payload, topic) == FALSE

\* mutant: compare with the tail of the queue instead of the stored hash
IsDuplicate_QueueTail(payload, topic) ==
  /\ topicQueues_[topic] # <<>>
  /\ topicQueues_[topic][Len(topicQueues_[topic])].payload = payload

\* line 88-91: hash the payload, compare with the stored hash of the topic
IsDuplicate(payload, topic) ==
  /\ topic \in DOMAIN lastPayloadHashes_
  /\ lastPayloadHashes_[topic] = Hash(payload)

\* mutant: off by one, the queue may grow to queueSize + 1
QueueFull_OffByOne(q) == Len(q) > cfg_queueSize

\* line 98: q.size() >= cfg_.queueSize
QueueFull(q) == Len(q) >= cfg_queueSize

\* mutant: new messages are put at the head
Enqueue_AtHead(q, msg) ==
  IF QueueFull(q) THEN <<msg>> \o Tail(q) ELSE <<msg>> \o q

\* mutant: a full queue rejects the new message and keeps the old ones
Enqueue_DropNewest(q, msg) == IF QueueFull(q) THEN q ELSE Append(q, msg)

\* line 98-103: if full, q.pop() the oldest; q.push(new)
Enqueue(q, msg) == IF QueueFull(q) THEN Append(Tail(q), msg) ELSE Append(q, msg)

publish(payload, topic) ==
  /\ mutex_ = "free"
  /\ lastPublish' = [n |-> lastPublish.n + 1, payload |-> payload,
                     topic |-> topic,
                     accepted |-> ~IsDuplicate(payload, topic)]
  /\ IF IsDuplicate(payload, topic)
       THEN UNCHANGED <<topicQueues_, lastPayloadHashes_, droppedCount_,
                        wNotified, nextId, acceptLog, failedLog>>
       ELSE /\ lastPayloadHashes_' =
                 [t \in DOMAIN lastPayloadHashes_ \cup {topic} |->
                    IF t = topic THEN Hash(payload) ELSE lastPayloadHashes_[t]]
            /\ topicQueues_' =
                 [topicQueues_ EXCEPT
                    ![topic] = Enqueue(@, [payload |-> payload, id |-> nextId])]
            /\ droppedCount_' =
                 [droppedCount_ EXCEPT
                    ![topic] = IF QueueFull(topicQueues_[topic]) THEN @ + 1 ELSE @]
            /\ nextId' = nextId + 1
            /\ acceptLog' =
                 [acceptLog EXCEPT
                    ![topic] = Append(@, [payload |-> payload, id |-> nextId])]
            /\ wNotified' = Notify
            /\ failedLog' = StillQueued(failedLog, topicQueues_')
  /\ UNCHANGED <<cfg_queueSize, connected_, mutex_, wpc, wTopic, wPayload,
                 mqttDtor, brokerLog, stopSeen>>

----------------------------------------------------------------------------
(* MqttClient::run, mqtt_client.cpp:123-165.  One step per read of an      *)
(* atomic that other threads write (running_, connected_) and per          *)
(* lock/unlock boundary.                                                   *)

workerVarsUnchanged ==
  /\ ~crashed
  /\ UNCHANGED <<cfg_queueSize, connected_, lastPayloadHashes_, nextId,
                 acceptLog, lastPublish, mqttDtor>>
  /\ UNCHANGED <<slaveVars, mainPc, meterVars, callbackVars, crashed,
                 readVars, packVars, sigVars, valVars, histVars>>

workerFrame == workerVarsUnchanged /\ UNCHANGED linkFaults

\* line 124-125: while (handler_.isRunning()) { unique_lock lock(mutex_);
RunWhile ==
  /\ wpc = "while"
  /\ IF running_
       THEN /\ mutex_ = "free"
            /\ mutex_' = "worker"
            /\ wpc' = "pred_connected"
       ELSE /\ wpc' = "stopped"
            /\ UNCHANGED mutex_
  /\ UNCHANGED <<running_, topicQueues_, droppedCount_, wTopic, wPayload,
                 wNotified, brokerLog, failedLog, stopSeen>>
  /\ workerFrame

\* line 127-128: predicate, left operand: connected_.load() && hasQueuedMessages()
RunPredConnected ==
  /\ wpc = "pred_connected"
  /\ wpc' = IF connected_ /\ hasQueuedMessages THEN "post_running"
                                               ELSE "pred_running"
  /\ UNCHANGED <<running_, mutex_, topicQueues_, droppedCount_, wTopic,
                 wPayload, wNotified, brokerLog, failedLog, stopSeen>>
  /\ workerFrame

\* line 129: predicate, right operand: !handler_.isRunning()
RunPredRunning ==
  /\ wpc = "pred_running"
  /\ wpc' = IF ~running_ THEN "post_running" ELSE "blocking"
  /\ UNCHANGED <<running_, mutex_, topicQueues_, droppedCount_, wTopic,
                 wPayload, wNotified, brokerLog, failedLog>>
  /\ ObserveStop
  /\ workerFrame

\* cv_.wait: the predicate was false; release the mutex and block
RunBlock ==
  /\ wpc = "blocking"
  /\ wpc' = "sleeping"
  /\ mutex_' = "free"
  /\ wNotified' = FALSE
  /\ UNCHANGED <<running_, topicQueues_, droppedCount_, wTopic, wPayload,
                 brokerLog, failedLog, stopSeen>>
  /\ workerFrame

\* cv_.wait: woken by a notify; take the mutex again and re-evaluate
RunWake ==
  /\ wpc = "sleeping"
  /\ wNotified
  /\ mutex_ = "free"
  /\ mutex_' = "worker"
  /\ wNotified' = FALSE
  /\ wpc' = "pred_connected"
  /\ UNCHANGED <<running_, topicQueues_, droppedCount_, wTopic, wPayload,
                 brokerLog, failedLog, stopSeen>>
  /\ workerFrame

\* line 132: if (!handler_.isRunning())
RunPostRunning ==
  /\ wpc = "post_running"
  /\ wpc' = IF ~running_ THEN "post_connected" ELSE "inner"
  /\ wTopic' = 1
  /\ UNCHANGED <<running_, mutex_, topicQueues_, droppedCount_, wPayload,
                 wNotified, brokerLog, failedLog>>
  /\ ObserveStop
  /\ workerFrame

\* line 133-135: if (!connected_.load()) break;   (the lock is released)
RunPostConnected ==
  /\ wpc = "post_connected"
  /\ IF ~connected_
       THEN /\ wpc' = "stopped"
            /\ mutex_' = "free"
       ELSE /\ wpc' = "inner"
            /\ UNCHANGED mutex_
  /\ UNCHANGED <<running_, topicQueues_, droppedCount_, wTopic, wPayload,
                 wNotified, brokerLog, failedLog, stopSeen>>
  /\ workerFrame

\* line 141-144: for each topic: while (!q.empty() && connected_.load())
\*               { payload = q.front().payload; lock.unlock();
\* past the last topic the loop body ends and the lock is released
RunInner ==
  /\ wpc = "inner"
  /\ IF wTopic > Len(TopicOrder)
       THEN /\ wpc' = "while"
            /\ mutex_' = "free"
            /\ wTopic' = 1
            /\ UNCHANGED wPayload
       ELSE IF topicQueues_[TopicOrder[wTopic]] # <<>> /\ connected_
              THEN /\ wPayload' = Head(topicQueues_[TopicOrder[wTopic]])
                   /\ mutex_' = "free"
                   /\ wpc' = "publishing"
                   /\ UNCHANGED wTopic
              ELSE /\ wTopic' = wTopic + 1
                   /\ UNCHANGED <<wpc, mutex_, wPayload>>
  /\ UNCHANGED <<running_, topicQueues_, droppedCount_, wNotified, brokerLog, failedLog, stopSeen>>
  /\ workerFrame

\* line 146-147: rc = mosquitto_publish(...): the library accepts the
\* message (it is handed to the broker) or reports an error
RunPublish ==
  /\ wpc = "publishing"
  /\ \E ok \in BOOLEAN :
       IF ok
         THEN /\ brokerLog' =
                   [brokerLog EXCEPT ![TopicOrder[wTopic]] = Append(@, wPayload)]
              /\ wpc' = "published"
              /\ UNCHANGED <<linkFaults, failedLog>>
         ELSE /\ wpc' = "failed"
              /\ linkFaults' = TRUE
              /\ failedLog' =
                   StillQueued(failedLog \cup {wPayload}, topicQueues_)
              /\ UNCHANGED brokerLog
  /\ UNCHANGED <<running_, mutex_, topicQueues_, droppedCount_, wTopic,
                 wPayload, wNotified, stopSeen>>
  /\ workerVarsUnchanged

\* line 149-154: lock.lock(); rc == MOSQ_ERR_SUCCESS: q.pop();
\*               droppedCount_[topic] = 0;
RunPublished ==
  /\ wpc = "published"
  /\ mutex_ = "free"
  /\ mutex_' = "worker"
  /\ topicQueues_' = [topicQueues_ EXCEPT ![TopicOrder[wTopic]] = Tail(@)]
  /\ droppedCount_' = [droppedCount_ EXCEPT ![TopicOrder[wTopic]] = 0]
  /\ wPayload' = NoMessage
  /\ wpc' = "inner"
  /\ failedLog' = StillQueued(failedLog, topicQueues_')
  /\ UNCHANGED <<running_, wTopic, wNotified, brokerLog, stopSeen>>
  /\ workerFrame

\* mutant: a failed publish pops the head like a successful one
RunFailed_Pops ==
  /\ wpc = "failed"
  /\ mutex_ = "free"
  /\ mutex_' = "worker"
  /\ topicQueues_' = [topicQueues_ EXCEPT ![TopicOrder[wTopic]] = Tail(@)]
  /\ wTopic' = wTopic + 1
  /\ wPayload' = NoMessage
  /\ wpc' = "inner"
  /\ failedLog' = StillQueued(failedLog, topicQueues_')
  /\ UNCHANGED <<running_, droppedCount_, wNotified, brokerLog, stopSeen>>
  /\ workerFrame

\* line 149, 155-159: lock.lock(); rc != MOSQ_ERR_SUCCESS: break;
RunFailed ==
  /\ wpc = "failed"
  /\ mutex_ = "free"
  /\ mutex_' = "worker"
  /\ wTopic' = wTopic + 1
  /\ wPayload' = NoMessage
  /\ wpc' = "inner"
  /\ UNCHANGED <<running_, topicQueues_, droppedCount_, wNotified, brokerLog, failedLog, stopSeen>>
  /\ workerFrame

----------------------------------------------------------------------------
(* MqttClient: library callbacks and destruction *)

mqttEnvFrame ==
  /\ ~crashed
  /\ UNCHANGED <<running_, cfg_queueSize, mutex_, topicQueues_,
                 lastPayloadHashes_, droppedCount_, wpc, wTopic, wPayload,
                 nextId, brokerLog, failedLog, stopSeen,
                 acceptLog, lastPublish>>
  /\ UNCHANGED <<slaveVars, mainPc, meterVars, callbackVars, crashed,
                 readVars, packVars, sigVars, valVars, histVars>>

\* mqtt_client.cpp:167-171: connected_ = (rc == 0); cv_.notify_one();
onConnect ==
  /\ mqttDtor = "none"
  /\ ~connected_
  /\ \E rcOk \in BOOLEAN :
       /\ connected_' = rcOk
       /\ linkFaults' = IF rcOk THEN linkFaults ELSE TRUE
  /\ wNotified' = Notify
  /\ UNCHANGED mqttDtor
  /\ mqttEnvFrame

\* mqtt_client.cpp:180-183: connected_ = false;
onDisconnect ==
  /\ mqttDtor = "none"
  /\ connected_
  /\ connected_' = FALSE
  /\ linkFaults' = TRUE
  /\ UNCHANGED <<wNotified, mqttDtor>>
  /\ mqttEnvFrame

\* mqtt_client.cpp:59-60: ~MqttClient: cv_.notify_all();
MqttDtorNotify ==
  /\ mqttDtor = "none"
  /\ mqttDtor' = "joining"
  /\ wNotified' = Notify
  /\ UNCHANGED <<connected_, linkFaults>>
  /\ mqttEnvFrame

\* mqtt_client.cpp:61-65: worker_.join(); mosquitto_disconnect(mosq_);
MqttDtorJoin ==
  /\ mqttDtor = "joining"
  /\ wpc = "stopped"
  /\ mqttDtor' = "done"
  /\ connected_' = FALSE
  /\ UNCHANGED <<wNotified, linkFaults>>
  /\ mqttEnvFrame

----------------------------------------------------------------------------
(* SignalHandler, signal_handler.h:39-45 and :14-19: shutdown() and the    *)
(* SIGINT/SIGTERM handler store false into running_; nothing stores true.  *)

\* mutant: the flag is toggled
Signal_Toggle ==
  /\ ~crashed
  /\ running_' = ~running_
  /\ UNCHANGED <<mqttVars, slaveVars, sysVars,
                 readVars, packVars, sigVars, valVars, histVars>>

Signal ==
  /\ ~crashed
  /\ running_
  /\ running_' = FALSE
  /\ UNCHANGED <<mqttVars, slaveVars, sysVars,
                 readVars, packVars, sigVars, valVars, histVars>>

----------------------------------------------------------------------------
(* ModbusSlave: register file                                              *)
(* tab_registers is indexed by the register address itself                 *)
(* (modbus_mapping_new(0, 0, MODBUS_REGISTERS, 0)).  The model tracks the  *)
(* addresses in Addrs; writes to other addresses are not recorded.         *)

Register(addr, nb, type) == [ADDR |-> addr, NB |-> nb, TYPE |-> type]

C001_SID == Register(40000, 2, "UINT32")
C001_ID == Register(40002, 1, "UINT16")
C001_L == Register(40003, 1, "UINT16")
C001_MN == Register(40004, 16, "STRING")
C001_VR == Register(40044, 8, "STRING")
\* mutant: the serial number field is one register too wide
C001_SN_TooWide == Register(40052, 17, "STRING")
C001_SN == Register(40052, 16, "STRING")
C001_DA == Register(40068, 1, "UINT16")
C001_SIZE == 65

M20X_ID == Register(40069, 1, "UINT16")
M20X_L == Register(40070, 1, "UINT16")
M20X_A == Register(40071, 1, "INT16")
M20X_A_SF == Register(40075, 1, "INT16")
M20X_W == Register(40087, 1, "INT16")
M20X_WPHA == Register(40088, 1, "INT16")
M20X_W_SF == Register(40091, 1, "INT16")
M20X_PF == Register(40102, 1, "INT16")
M20X_TOTWH_IMP == Register(40115, 2, "UINT32")
M20X_TOTWH_SF == Register(40123, 1, "INT16")
M20X_SIZE == 105

M21X_ID == Register(40069, 1, "UINT16")
M21X_L == Register(40070, 1, "UINT16")
M21X_A == Register(40071, 2, "FLOAT")
M21X_W == Register(40097, 2, "FLOAT")
M21X_WPHA == Register(40099, 2, "FLOAT")
M21X_PF == Register(40121, 2, "FLOAT")
M21X_SIZE == 124

M_END_ID == Register(40176, 1, "UINT16")
M_END_FLOAT_OFFSET == 19

\* Register::withOffset
withOffset(reg, offset) == Register(reg.ADDR + offset, reg.NB, reg.TYPE)

Addrs ==
  (40000 .. 40005) \cup {40019} \cup (40044 .. 40053) \cup (40066 .. 40072)
    \cup {40075}
    \cup (40087 .. 40091) \cup (40097 .. 40102) \cup {40121, 40122}
    \cup {40115, 40116, 40123}
    \cup {40176, 40195}

Words == 0 .. 65535

SetReg(regs, addr, word) ==
  IF addr \in Addrs THEN [regs EXCEPT ![addr] = word] ELSE regs

RECURSIVE SetRegs(_, _, _)
\* store the words of a sequence at addr, addr+1, ...
SetRegs(regs, addr, words) ==
  IF words = <<>> THEN regs
  ELSE SetRegs(SetReg(regs, addr, Head(words)), addr + 1, Tail(words))

RECURSIVE Pow(_, _)
Pow(b, n) == IF n = 0 THEN 1 ELSE b * Pow(b, n - 1)

\* detail::packInteger<T>, modbus_utils.h:19-35, on a little-endian host:
\* buf holds the bytes of value, least significant first; word i takes
\* buf[2i+1] as high and buf[2i] as low byte; the words are then reversed.
Byte(value, k) == (value \div Pow(256, k)) % 256

\* byte k of the two's complement image of value; values of the model have
\* less than 32 bits, so the bytes from the fifth on are sign bytes
TwosByte(value, k) ==
  IF k < 4 THEN Byte(value, k) ELSE IF value < 0 THEN 255 ELSE 0

\* std::memcpy(buf, &value, nBytes), line 26
Buf(value, nBytes) == [k \in 1 .. nBytes |-> TwosByte(value, k - 1)]

\* mutant: the words are left in memory order
packBuf_NoReverse(buf) ==
  [j \in 1 .. Len(buf) \div 2 |-> buf[2 * j] * 256 + buf[2 * j - 1]]

\* lines 28-34 on the byte image buf (1-based here)
packBuf(buf) ==
  LET nWords == Len(buf) \div 2
      word(i) == buf[2 * i + 2] * 256 + buf[2 * i + 1]
  IN  [j \in 1 .. nWords |-> word(nWords - j)]

packInteger(value, nWords) == packBuf(Buf(value, 2 * nWords))

\* std::round: nearest integer, halves away from zero; n / d with d > 0
RoundDiv(n, d) ==
  IF n >= 0 THEN (2 * n + d) \div (2 * d)
  ELSE -((2 * (-n) + d) \div (2 * d))

\* Real quantities are carried as integers in thousandths (259.20 is 259200).
Milli == 1000

\* round(realValue * pow(10, decimals)), modbus_utils.h:135
Scaled(realMilli, decimals) == RoundDiv(realMilli * Pow(10, decimals), Milli)

\* static_cast<int16_t>(double) then static_cast<uint16_t>: defined only
\* when the value fits int16_t; outside that range the conversion is
\* undefined and builds yield the low 16 bits or the saturated bound.
Int16Outcomes(x) ==
  IF x >= -32768 /\ x <= 32767 THEN {x % 65536}
  ELSE {x % 65536, 32768, 32767}

\* static_cast<uint16_t>(double): defined only for 0 .. 65535
UInt16Outcomes(x) ==
  IF x >= 0 /\ x <= 65535 THEN {x}
  ELSE {x % 65536, IF x < 0 THEN 0 ELSE 65535}

\* the words stored for round(realValue * pow(10, decimals)) = x by the
\* cases of the switch at modbus_utils.h:132-157; a negative x is outside
\* the unsigned types, and the conversion then yields the low bits of x or
\* the bound 0
ScaledWords(type, x) ==
  IF type = "INT16" THEN { <<w>> : w \in Int16Outcomes(x) }
  ELSE IF type = "UINT16" THEN { <<w>> : w \in UInt16Outcomes(x) }
  ELSE LET n == IF type = "UINT32" THEN 2 ELSE 4
       IN  IF x >= 0 THEN { packInteger(x, n) }
           ELSE { packInteger(x, n), packInteger(0, n) }

\* mutant: the scale factor is stored with the wrong sign
ScaleFactorWord_Positive(decimals) == decimals % 65536

\* lines 167-168: -static_cast<int16_t>(decimals) as uint16_t
ScaleFactorWord(decimals) == (-decimals) % 65536

\* packToModbus(dest, reg, sf, realValue, decimals), modbus_utils.h:118-171:
\* the possible register files afterwards; a target that is no integer
\* type returns EINVAL before anything is stored
packToModbusSF(regs, reg, sf, realMilli, decimals) ==
  IF reg.TYPE \notin {"INT16", "UINT16", "UINT32", "UINT64"} THEN {regs}
  ELSE { SetReg(SetRegs(regs, reg.ADDR, ws), sf.ADDR,
                ScaleFactorWord(decimals)) :
           ws \in ScaledWords(reg.TYPE, Scaled(realMilli, decimals)) }

\* packToModbus<double>(dest, reg, value), modbus_utils.h:42-115, with an
\* INT16 or UINT16 target: "if constexpr (std::is_integral_v<T>)" is false
\* for T = double, so nothing is stored
packToModbusDoubleToInt(regs, reg, realMilli) == regs

\* IEEE-754 single precision of realMilli / 1000, as <<high word, low word>>
FloatExponent(m) ==
  IF m >= Milli
    THEN CHOOSE e \in 0 .. 20 :
           Milli * Pow(2, e) <= m /\ m < Milli * Pow(2, e + 1)
    ELSE CHOOSE e \in -10 .. -1 :
           Milli <= m * Pow(2, -e) /\ m * Pow(2, -e) < 2 * Milli

RECURSIVE FracBits(_, _, _)
\* k binary digits of r / den (0 <= r < den): <<digits as a number, remainder>>
FracBits(r, den, k) ==
  IF k = 0 THEN <<0, r>>
  ELSE LET prev == FracBits(r, den, k - 1)
           bit == IF 2 * prev[2] >= den THEN 1 ELSE 0
       IN  <<2 * prev[1] + bit, 2 * prev[2] - bit * den>>

FloatBits(realMilli) ==
  IF realMilli = 0 THEN <<0, 0>>
  ELSE LET sign == IF realMilli < 0 THEN 1 ELSE 0
           m == IF realMilli < 0 THEN -realMilli ELSE realMilli
           e == FloatExponent(m)
           num == IF e >= 0 THEN m ELSE m * Pow(2, -e)
           den == IF e >= 0 THEN Milli * Pow(2, e) ELSE Milli
           fb == FracBits(num - den, den, 23)
           up == 2 * fb[2] > den \/ (2 * fb[2] = den /\ fb[1] % 2 = 1)
           mant == IF up THEN fb[1] + 1 ELSE fb[1]
           exp == IF mant = 8388608 THEN e + 128 ELSE e + 127
           man == IF mant = 8388608 THEN 0 ELSE mant
       IN  <<sign * 32768 + exp * 128 + man \div 65536, man % 65536>>

\* packToModbus<float>, modbus_utils.h:72-76: modbus_set_float_abcd stores
\* the most significant word at reg.ADDR
packToModbusFloat(regs, reg, realMilli) ==
  SetRegs(regs, reg.ADDR, FloatBits(realMilli))

\* packToModbus<std::string>, modbus_utils.h:77-106; a string is a sequence
\* of character codes
StringTooLong(reg, value) == Len(value) > reg.NB * 2

\* mutant: the registers behind the string keep their contents
packToModbusString_NoZero(regs, reg, value) ==
  IF StringTooLong(reg, value) THEN regs
  ELSE [a \in Addrs |->
          IF a >= reg.ADDR /\ a < reg.ADDR + (Len(value) + 1) \div 2
            THEN LET i == a - reg.ADDR
                 IN  IF i < Len(value) \div 2
                       THEN value[2 * i + 1] * 256 + value[2 * i + 2]
                     ELSE value[Len(value)] * 256
            ELSE regs[a]]

packToModbusString(regs, reg, value) ==
  IF StringTooLong(reg, value) THEN regs
  ELSE [a \in Addrs |->
          IF a >= reg.ADDR /\ a < reg.ADDR + reg.NB
            THEN LET i == a - reg.ADDR
                 IN  IF i < Len(value) \div 2
                       THEN value[2 * i + 1] * 256 + value[2 * i + 2]
                     ELSE IF Len(value) % 2 = 1 /\ i = Len(value) \div 2
                       THEN value[Len(value)] * 256
                     ELSE 0
            ELSE regs[a]]

\* cfg_.slaveId
cfg_slaveId == 1

\* ModbusSlave::startListener, modbus_slave.cpp:53-80: the zero-filled
\* mapping with the static SunSpec registers
startListenerRegs(useFloat) ==
  LET zero == [a \in Addrs |-> 0]
      r1 == SetRegs(zero, C001_SID.ADDR, packInteger(1400204883, 2))
      r2 == SetReg(r1, C001_ID.ADDR, 1)
      r3 == SetReg(r2, C001_L.ADDR, C001_SIZE)
      r4 == SetReg(r3, C001_DA.ADDR, cfg_slaveId)
  IN  IF useFloat
        THEN SetReg(SetReg(SetReg(r4, M21X_ID.ADDR, 213), M21X_L.ADDR, M21X_SIZE),
                    withOffset(M_END_ID, M_END_FLOAT_OFFSET).ADDR, 65535)
        ELSE SetReg(SetReg(SetReg(r4, M20X_ID.ADDR, 203), M20X_L.ADDR, M20X_SIZE),
                    M_END_ID.ADDR, 65535)

----------------------------------------------------------------------------
(* ModbusSlave::updateValues, modbus_slave.cpp:154-351, and                *)
(* ModbusSlave::updateDevice, modbus_slave.cpp:353-393.  Both are called   *)
(* from the Meter worker's callbacks (main.cpp:122-135, meter.cpp:611-630),*)
(* hence one after the other, never concurrently with each other; the      *)
(* request handlers run on their own threads.                              *)

\* empty locals
NoValues ==
  [activePower |-> 0, phase1Power |-> 0, powerFactor |-> 0, current |-> 0]
NoDevice == [fwVersion |-> <<>>, serialNumber |-> <<>>]
NoRequest == [addr |-> 0, nb |-> 0]

\* values handed to updateValues, in thousandths (W, W, power factor)
ValueInputs ==
  { [activePower |-> 259200, phase1Power |-> 75180, powerFactor |-> 950,
     current |-> 1148],
    [activePower |-> -100500, phase1Power |-> 40000, powerFactor |-> 900,
     current |-> 486] }

\* devices handed to updateDevice.  Firmware versions "1.2", "20a", and one
\* of 17 characters, longer than the 8 registers of C001::VR can hold;
\* serial numbers of 32 characters (all 16 registers of C001::SN), of 7,
\* and an empty one.
DeviceInputs ==
  { [fwVersion |-> <<49, 46, 50>>, serialNumber |-> [i \in 1 .. 32 |-> 48 + (i % 10)]],
    [fwVersion |-> <<50, 48, 97>>, serialNumber |-> <<49, 69, 66, 90, 48, 49, 50>>],
    [fwVersion |-> [i \in 1 .. 17 |-> 65], serialNumber |-> <<>>] }

\* meter.cpp:560: newDevice.manufacturer = "EasyMeter"
Manufacturer == <<69, 97, 115, 121, 77, 101, 116, 101, 114>>

\* lines 180-187 and 189-348: the registers updateValues packs into newRegs
\* (old is the memcpy'd copy); a set, one element per outcome of the casts
updateValuesRegs(old, v) ==
  LET pf == v.powerFactor * 100
  IN  IF cfg_useFloatModel
        THEN { packToModbusFloat(
                 packToModbusFloat(
                   packToModbusFloat(packToModbusFloat(old, M21X_PF, pf),
                                     M21X_W, v.activePower),
                   M21X_WPHA, v.phase1Power),
                 M21X_A, v.current) }
        ELSE UNION
               { packToModbusSF(r2, M20X_A, M20X_A_SF, v.current, 3) :
                   r2 \in UNION
                     { packToModbusSF(r, M20X_WPHA, M20X_W_SF,
                                      v.phase1Power, 0) :
                         r \in packToModbusSF(
                                 packToModbusDoubleToInt(old, M20X_PF, pf),
                                 M20X_W, M20X_W_SF, v.activePower, 0) } }

\* lines 382-389: the registers updateDevice packs into newRegs
updateDeviceRegs(old, d) ==
  packToModbusString(
    packToModbusString(packToModbusString(old, C001_MN, Manufacturer),
                       C001_VR, d.fwVersion),
    C001_SN, d.serialNumber)

\* mutant: the update is written into the published mapping itself
NewMapping_InPlace(h, old, regs) == <<[h EXCEPT ![old] = regs], old>>

\* lines 168-177 / 370-380: a fresh mapping holding regs; <<heap, handle>>
NewMapping(h, old, regs) == <<Append(h, regs), Len(h) + 1>>

\* the Meter worker is inside neither callback
WriterIdle == uvpc = "idle" /\ udpc = "idle"

slaveFrame ==
  /\ ~crashed
  /\ UNCHANGED <<cfg_useFloatModel, mqttVars, sysVars, serverVars, readVars,
                 packVars, sigVars, valVars, histVars>>

\* meter.cpp:625-629 via main.cpp:122-128
UV_Call ==
  /\ WriterIdle
  /\ running_
  /\ uvCalls < MaxValueCalls
  /\ \E v \in ValueInputs : uvArg' = v
  /\ uvpc' = "check"
  /\ uvCalls' = uvCalls + 1
  /\ slaveFrame
  /\ UNCHANGED <<running_, heap, regs_, deviceUpdated_, pubLog, uvOld, uvNew,
                 uvReturn, udVars, rdVars>>

\* line 155-158
UV_Check ==
  /\ uvpc = "check"
  /\ uvpc' = IF running_ THEN "load" ELSE "idle"
  /\ uvArg' = IF running_ THEN uvArg ELSE NoValues
  /\ slaveFrame
  /\ UNCHANGED <<running_, heap, regs_, deviceUpdated_, pubLog, uvOld, uvNew,
                 uvCalls, uvReturn, udVars, rdVars>>

\* line 161
UV_Load ==
  /\ uvpc = "load"
  /\ uvOld' = regs_
  /\ uvpc' = "alloc"
  /\ slaveFrame
  /\ UNCHANGED <<running_, heap, regs_, deviceUpdated_, pubLog, uvArg, uvNew,
                 uvCalls, uvReturn, udVars, rdVars>>

\* line 168-348: allocate, copy, pack; a failed allocation is ENOMEM, which
\* handleResult treats as fatal (shutdown) before the early return
UV_Alloc ==
  /\ uvpc = "alloc"
  /\ \/ /\ running_' = FALSE
        /\ uvpc' = "idle"
        /\ uvArg' = NoValues /\ uvOld' = 0
        /\ UNCHANGED <<heap, uvNew>>
     \/ /\ \E r \in updateValuesRegs(heap[uvOld], uvArg) :
             /\ heap' = NewMapping(heap, uvOld, r)[1]
             /\ uvNew' = NewMapping(heap, uvOld, r)[2]
        /\ uvpc' = "store"
        /\ UNCHANGED <<running_, uvArg, uvOld>>
  /\ slaveFrame
  /\ UNCHANGED <<regs_, deviceUpdated_, pubLog, uvCalls, uvReturn, udVars,
                 rdVars>>

\* line 350-351: regs_.store(newRegs) and return
UV_Store ==
  /\ uvpc = "store"
  /\ regs_' = uvNew
  /\ pubLog' = Append(pubLog, [handle |-> uvNew, regs |-> heap[uvNew]])
  /\ uvReturn' = [n |-> uvCalls, arg |-> uvArg, pub |-> Len(pubLog) + 1,
                  running |-> running_]
  /\ uvpc' = "idle"
  /\ uvArg' = NoValues /\ uvOld' = 0 /\ uvNew' = 0
  /\ slaveFrame
  /\ UNCHANGED <<running_, heap, deviceUpdated_, uvCalls, udVars, rdVars>>

\* meter.cpp:611-616 via main.cpp:129-135
UD_Call ==
  /\ WriterIdle
  /\ running_
  /\ udCalls < MaxDeviceCalls
  /\ \E d \in DeviceInputs : udArg' = d
  /\ udpc' = "check"
  /\ udCalls' = udCalls + 1
  /\ slaveFrame
  /\ UNCHANGED <<running_, heap, regs_, deviceUpdated_, pubLog, udOld, udNew,
                 udReturn, uvVars, rdVars>>

\* line 354-357
UD_Check ==
  /\ udpc = "check"
  /\ udpc' = IF running_ THEN "latch" ELSE "idle"
  /\ udArg' = IF running_ THEN udArg ELSE NoDevice
  /\ udReturn' = IF running_ THEN udReturn
                 ELSE [n |-> udCalls, how |-> "shutdown"]
  /\ slaveFrame
  /\ UNCHANGED <<running_, heap, regs_, deviceUpdated_, pubLog, udOld, udNew,
                 udCalls, uvVars, rdVars>>

\* mutant: the latch is never consulted
AlreadyUpdated_Never == FALSE

\* line 359: if (deviceUpdated_)
AlreadyUpdated == deviceUpdated_

\* line 359-360
UD_Latch ==
  /\ udpc = "latch"
  /\ udpc' = IF AlreadyUpdated THEN "idle" ELSE "load"
  /\ udArg' = IF AlreadyUpdated THEN NoDevice ELSE udArg
  /\ udReturn' = IF AlreadyUpdated THEN [n |-> udCalls, how |-> "latched"]
                 ELSE udReturn
  /\ slaveFrame
  /\ UNCHANGED <<running_, heap, regs_, deviceUpdated_, pubLog, udOld, udNew,
                 udCalls, uvVars, rdVars>>

\* line 363
UD_Load ==
  /\ udpc = "load"
  /\ udOld' = regs_
  /\ udpc' = "alloc"
  /\ slaveFrame
  /\ UNCHANGED <<running_, heap, regs_, deviceUpdated_, pubLog, udArg, udNew,
                 udCalls, udReturn, uvVars, rdVars>>

\* line 370-389: allocate, copy, pack the strings.  A failed allocation is
\* fatal and returns early; a string that does not fit is EINVAL, fatal as
\* well, but the function carries on to the store.
UD_Alloc ==
  /\ udpc = "alloc"
  /\ \/ /\ running_' = FALSE
        /\ udpc' = "idle"
        /\ udArg' = NoDevice /\ udOld' = 0
        /\ udReturn' = [n |-> udCalls, how |-> "enomem"]
        /\ UNCHANGED <<heap, udNew>>
     \/ /\ heap' = NewMapping(heap, udOld,
                              updateDeviceRegs(heap[udOld], udArg))[1]
        /\ udNew' = NewMapping(heap, udOld,
                               updateDeviceRegs(heap[udOld], udArg))[2]
        /\ running_' = IF \/ StringTooLong(C001_VR, udArg.fwVersion)
                            \/ StringTooLong(C001_SN, udArg.serialNumber)
                         THEN FALSE ELSE running_
        /\ udpc' = "store"
        /\ UNCHANGED <<udArg, udOld, udReturn>>
  /\ slaveFrame
  /\ UNCHANGED <<regs_, deviceUpdated_, pubLog, udCalls, uvVars, rdVars>>

\* line 391-393: regs_.store(newRegs); deviceUpdated_ = true
UD_Store ==
  /\ udpc = "store"
  /\ regs_' = udNew
  /\ pubLog' = Append(pubLog, [handle |-> udNew, regs |-> heap[udNew]])
  /\ deviceUpdated_' = TRUE
  /\ udReturn' = [n |-> udCalls, how |-> "published"]
  /\ udpc' = "idle"
  /\ udArg' = NoDevice /\ udOld' = 0 /\ udNew' = 0
  /\ slaveFrame
  /\ UNCHANGED <<running_, heap, udCalls, uvVars, rdVars>>


\* updateValues / updateDevice entered by callers on different threads: each
\* call waits only for the previous call of the same function
UV_CallConcurrent ==
  /\ uvpc = "idle"
  /\ running_
  /\ uvCalls < MaxValueCalls
  /\ \E v \in ValueInputs : uvArg' = v
  /\ uvpc' = "check"
  /\ uvCalls' = uvCalls + 1
  /\ slaveFrame
  /\ UNCHANGED <<running_, heap, regs_, deviceUpdated_, pubLog, uvOld, uvNew,
                 uvReturn, udVars, rdVars>>

UD_CallConcurrent ==
  /\ udpc = "idle"
  /\ running_
  /\ udCalls < MaxDeviceCalls
  /\ \E d \in DeviceInputs : udArg' = d
  /\ udpc' = "check"
  /\ udCalls' = udCalls + 1
  /\ slaveFrame
  /\ UNCHANGED <<running_, heap, regs_, deviceUpdated_, pubLog, udOld, udNew,
                 udReturn, uvVars, rdVars>>
----------------------------------------------------------------------------
(* Request handler: ModbusSlave::tcpClientWorker, modbus_slave.cpp:436-462 *)
(* (rtuClientHandler, lines 540-552, has the same load-then-reply shape).  *)

\* read-holding-registers queries a client sends
Requests ==
  { [addr |-> 40087, nb |-> 2], [addr |-> 40097, nb |-> 2],
    [addr |-> 40044, nb |-> 2], [addr |-> 40102, nb |-> 1] }

\* the last entry of pubLog made for handle h
VersionOf(h) ==
  CHOOSE i \in DOMAIN pubLog :
    /\ pubLog[i].handle = h
    /\ \A j \in DOMAIN pubLog : pubLog[j].handle = h => j <= i

readerFrame ==
  /\ slaveFrame
  /\ UNCHANGED <<running_, heap, regs_, deviceUpdated_, pubLog, uvVars, udVars>>

\* line 436-437: while (isRunning()) modbus_receive
RD_Receive ==
  /\ rdpc = "idle"
  /\ running_
  /\ rdCalls < MaxRequests
  /\ \E q \in Requests : rdReq' = q
  /\ rdReply' = <<>>
  /\ rdpc' = "load"
  /\ rdCalls' = rdCalls + 1
  /\ readerFrame
  /\ UNCHANGED <<rdRegs, rdVersion, rdSeen>>

\* line 443: auto regs = regs_.load()
RD_Load ==
  /\ rdpc = "load"
  /\ rdRegs' = regs_
  /\ rdVersion' = VersionOf(regs_)
  /\ rdSeen' = uvReturn.pub
  /\ rdpc' = "reply"
  /\ readerFrame
  /\ UNCHANGED <<rdReq, rdReply, rdCalls>>

\* line 451: modbus_reply copies the requested registers out of
\* regs->tab_registers one after the other
RD_ReplyReg ==
  /\ rdpc = "reply"
  /\ rdReply' = Append(rdReply, heap[rdRegs][rdReq.addr + Len(rdReply)])
  /\ rdpc' = IF Len(rdReply) + 1 = rdReq.nb THEN "send" ELSE "reply"
  /\ readerFrame
  /\ UNCHANGED <<rdReq, rdRegs, rdVersion, rdSeen, rdCalls>>

\* line 451-461: the reply is sent, regs goes out of scope, continue
RD_Send ==
  /\ rdpc = "send"
  /\ rdpc' = "idle"
  /\ rdRegs' = 0
  /\ readerFrame
  /\ UNCHANGED <<rdReq, rdReply, rdVersion, rdSeen, rdCalls>>

-----------------------------------------------------------------------------
(* Error classification, modbus_error.h; errno values are named         *)

\* errno values the system calls of tryConnect and readTelegram fail with
OpenErrnos == {"ENOENT", "EACCES"}
SetupErrnos == {"ENOTTY", "EWOULDBLOCK"}
ReadErrnos == {"EIO", "EAGAIN"}

\* mutant: the wider fatal set (EACCES, EIO, EAGAIN, ENOTTY, ... are fatal)
deduceSeverity_Wide(c) ==
  IF c \in {"EINVAL", "ENOMEM", "ENOENT", "ENODEV", "EACCES", "EPERM",
            "EBADF", "EIO", "EBUSY", "EMFILE", "ENFILE", "ENOTTY", "EAGAIN",
            "EWOULDBLOCK"}
    THEN "FATAL"
  ELSE IF c = "EINTR" THEN "SHUTDOWN"
  ELSE "TRANSIENT"

\* mutant: a timeout is fatal
deduceSeverity_TimeoutFatal(c) ==
  IF c \in {"EINVAL", "ENOMEM", "ENOENT", "ETIMEDOUT"} THEN "FATAL"
  ELSE IF c = "EINTR" THEN "SHUTDOWN"
  ELSE "TRANSIENT"

\* ModbusError::deduceSeverity, modbus_error.h:205-222, the classifier of
\* every error meter.cpp and modbus_slave.cpp create
deduceSeverity(c) ==
  IF c \in {"EINVAL", "ENOMEM", "ENOENT", "EMBMDATA", "EMBXILFUN",
            "EMBXILADD", "EMBXILVAL", "EMBXSFAIL", "EMBXGTAR"}
    THEN "FATAL"
  ELSE IF c = "EINTR" THEN "SHUTDOWN"
  ELSE "TRANSIENT"

-----------------------------------------------------------------------------
(* ModbusSlave server worker, modbus_slave.cpp:500-677, and the TCP client *)
(* workers it spawns, modbus_slave.cpp:395-498.  The worker is started by  *)
(* the constructor after startListener succeeded (line 27-34), so          *)
(* serverSocket_ is valid when tcpClientHandler starts.  What a client     *)
(* worker replies is modelled by the RD_ actions; here only its control    *)
(* flow is.                                                                *)

Clients == 1..MaxClients

\* errno of a failed poll() on the listening socket
PollErrnos == {"EINTR", "ENOMEM"}
\* errno of a failed accept()
AcceptErrnos == {"EINTR", "ECONNABORTED"}
\* errno of a failed modbus_receive()
\* errno values of a modbus_receive timeout, modbus_slave.cpp:472
TimeoutErrnos == {"ETIMEDOUT", "EAGAIN"}

\* other errno values of modbus_receive on a client socket
ClientErrnos == {"EINTR", "ECONNRESET"}

\* modbus.idle_timeout in seconds and the largest clock value
cfg_idleTimeout == 1

MaxTime == 3

ReceiveErrnos ==
  {"ETIMEDOUT", "EAGAIN", "EINTR", "EBADF", "EIO", "ECONNRESET", "EMBBADCRC"}

serverFrame ==
  /\ ~crashed
  /\ UNCHANGED <<cfg_useFloatModel, heap, regs_, deviceUpdated_, pubLog,
                 uvVars, udVars, rdVars, mqttVars, sysVars, cfg_tcp,
                 readVars, packVars, sigVars, valVars, histVars, now, slaveDestroyed>>

\* line 608 / line 528: while (handler_.isRunning())
ServerWhile ==
  /\ spc = "while"
  /\ IF running_
       THEN spc' = (IF cfg_tcp THEN "poll" ELSE "receive") /\ sStop' = sStop
       ELSE /\ spc' = (IF cfg_tcp THEN "shutdown" ELSE "exited")
            /\ sStop' = "not running"
  /\ serverFrame
  /\ UNCHANGED <<lastActivity, rc, running_, revents, sErr, clientThreads_, cpc>>

\* line 611-623: poll(&pfd, 1, 500) fails, times out or reports events
TcpPoll ==
  /\ spc = "poll"
  /\ \/ /\ \E e \in PollErrnos :
             (IF e = "EINTR"
                THEN spc' = "while" /\ UNCHANGED <<sErr, sStop>>
                ELSE spc' = "handle" /\ sErr' = e /\ sStop' = "poll failed")
        /\ revents' = revents
     \/ spc' = "while" /\ UNCHANGED <<revents, sErr, sStop>>
     \/ /\ \E ev \in (SUBSET {"POLLIN", "POLLERR"}) \ {{}} : revents' = ev
        /\ spc' = "events"
        /\ UNCHANGED <<sErr, sStop>>
  /\ serverFrame
  /\ UNCHANGED <<lastActivity, rc, running_, clientThreads_, cpc>>

\* line 626-650: accept() and the spawn of the client thread
TcpAccept ==
  /\ spc = "events"
  /\ IF "POLLIN" \in revents
       THEN \/ /\ \E e \in AcceptErrnos :
                    (IF e = "EINTR" /\ ~running_
                       THEN spc' = "shutdown" /\ sStop' = "not running"
                       ELSE spc' = "while" /\ sStop' = sStop)
               /\ UNCHANGED <<clientThreads_, cpc, lastActivity>>
            \/ /\ clientThreads_ < MaxClients
               /\ clientThreads_' = clientThreads_ + 1
               /\ cpc' = [cpc EXCEPT ![clientThreads_ + 1] = "while"]
               /\ lastActivity' =
                    [lastActivity EXCEPT ![clientThreads_ + 1] = now]
               /\ spc' = "errcheck"
               /\ sStop' = sStop
       ELSE /\ spc' = "errcheck"
            /\ UNCHANGED <<clientThreads_, cpc, sStop, lastActivity>>
  /\ serverFrame
  /\ UNCHANGED <<running_, revents, sErr, rc>>

\* line 653-658: POLLERR | POLLHUP | POLLNVAL on the listening socket
TcpErrCheck ==
  /\ spc = "errcheck"
  /\ IF "POLLERR" \in revents
       THEN spc' = "handle" /\ sErr' = "EIO" /\ sStop' = "socket error"
       ELSE spc' = "while" /\ UNCHANGED <<sErr, sStop>>
  /\ serverFrame
  /\ UNCHANGED <<lastActivity, rc, running_, revents, clientThreads_, cpc>>

\* line 528-578: modbus_receive on the serial line, and the reply
RtuReceive ==
  /\ spc = "receive"
  /\ \/ spc' = "while" /\ UNCHANGED <<sErr, sStop>>
     \/ \E e \in ReceiveErrnos :
          (IF e \in {"EBADF", "EIO"}
             THEN spc' = "handle" /\ sErr' = e /\ sStop' = "serial error"
             ELSE spc' = "while" /\ UNCHANGED <<sErr, sStop>>)
  /\ serverFrame
  /\ UNCHANGED <<lastActivity, rc, running_, revents, clientThreads_, cpc>>

\* ModbusSlave::handleResult on an error, modbus_slave.cpp:125-152,
\* followed by the break of the worker's loop
ServerHandle ==
  /\ spc = "handle"
  /\ running_' = IF deduceSeverity(sErr) = "FATAL" THEN FALSE ELSE running_
  /\ spc' = IF cfg_tcp THEN "shutdown" ELSE "exited"
  /\ serverFrame
  /\ UNCHANGED <<lastActivity, rc, revents, sErr, clientThreads_, cpc, sStop>>

\* line 662-664
TcpShutdownSocket ==
  /\ spc = "shutdown"
  /\ spc' = "join"
  /\ serverFrame
  /\ UNCHANGED <<lastActivity, rc, running_, revents, sErr, clientThreads_, cpc, sStop>>

\* mutant: the server worker returns without joining its client threads
TcpJoin_NoWait ==
  /\ spc = "join"
  /\ spc' = "exited"
  /\ serverFrame
  /\ UNCHANGED <<lastActivity, rc, running_, revents, sErr, clientThreads_,
                 cpc, sStop>>

\* line 667-674: join every client thread
TcpJoin ==
  /\ spc = "join"
  /\ \A c \in Clients : cpc[c] \in {"none", "closed"}
  /\ spc' = "exited"
  /\ serverFrame
  /\ UNCHANGED <<lastActivity, rc, running_, revents, sErr, clientThreads_, cpc, sStop>>

\* ModbusSlave::~ModbusSlave, modbus_slave.cpp:37-48: worker_.join()
\* returns once the server worker has returned; then the listening socket
\* is closed and the context freed
SlaveDestroy ==
  /\ ~slaveDestroyed
  /\ spc = "exited"
  /\ slaveDestroyed' = TRUE
  /\ UNCHANGED <<running_, mqttVars, sysVars, readVars, packVars, sigVars, valVars, histVars,
                 cfg_useFloatModel,
                 heap, regs_, deviceUpdated_, pubLog, uvVars, udVars, rdVars,
                 cfg_tcp, spc, revents, sErr, clientThreads_, cpc, sStop,
                 now, lastActivity, rc>>

\* mutant: the client worker does not look at running
ClientWhile_Forever(c) ==
  /\ cpc[c] = "while"
  /\ cpc' = [cpc EXCEPT ![c] = "receive"]
  /\ serverFrame
  /\ UNCHANGED <<lastActivity, rc, running_, spc, revents, sErr, clientThreads_, sStop>>

\* tcpClientWorker line 436: while (handler_.isRunning())
ClientWhile(c) ==
  /\ cpc[c] = "while"
  /\ cpc' = [cpc EXCEPT ![c] = IF running_ THEN "receive" ELSE "closed"]
  /\ serverFrame
  /\ UNCHANGED <<lastActivity, rc, running_, spc, revents, sErr, clientThreads_, sStop>>

\* mutant: the idle test uses >= instead of >
IdleExceeded_AtLimit(c) == now - lastActivity[c] >= cfg_idleTimeout

\* line 474: now - lastActivity > idleTimeout
IdleExceeded(c) == now - lastActivity[c] > cfg_idleTimeout

\* line 437-491: modbus_receive returns a request (rc > 0), an empty frame
\* (rc == 0) or -1 with errno; the worker refreshes lastActivity on a
\* request, tests the idle time on a timeout, retries on EINTR and leaves
\* the loop on anything else
ClientReceive(c) ==
  /\ cpc[c] = "receive"
  /\ \E r \in {"request", "eof"} \cup TimeoutErrnos \cup ClientErrnos :
       /\ rc' = [rc EXCEPT ![c] = r]
       /\ lastActivity' = IF r = "request"
                            THEN [lastActivity EXCEPT ![c] = now]
                            ELSE lastActivity
       /\ cpc' = [cpc EXCEPT ![c] =
                    IF r = "request" THEN "reply"
                    ELSE IF r = "eof" THEN "closed"
                    ELSE IF r \in TimeoutErrnos
                      THEN (IF IdleExceeded(c) THEN "closed" ELSE "while")
                    ELSE IF r = "EINTR" THEN "while"
                    ELSE "closed"]
  /\ serverFrame
  /\ UNCHANGED <<running_, spc, revents, sErr, clientThreads_, sStop>>

\* line 443-461: modbus_reply succeeds (continue) or fails (break)
ClientReply(c) ==
  /\ cpc[c] = "reply"
  /\ \E next \in {"while", "closed"} : cpc' = [cpc EXCEPT ![c] = next]
  /\ serverFrame
  /\ UNCHANGED <<running_, spc, revents, sErr, clientThreads_, sStop,
                 lastActivity, rc>>

\* std::chrono::steady_clock advances (line 432, 440, 473)
Tick ==
  /\ now < MaxTime
  /\ now' = now + 1
  /\ UNCHANGED <<running_, mqttVars, sysVars, readVars, packVars, sigVars, valVars, histVars,
                 cfg_useFloatModel,
                 heap, regs_, deviceUpdated_, pubLog, uvVars, udVars, rdVars,
                 cfg_tcp, spc, revents, sErr, clientThreads_, cpc, sStop,
                 lastActivity, rc, slaveDestroyed>>

ServerInitWith(tcp) ==
  /\ cfg_tcp = tcp
  /\ spc = "while"
  /\ revents = {}
  /\ sErr = "ok"
  /\ clientThreads_ = 0
  /\ cpc = [c \in Clients |-> "none"]
  /\ sStop = "none"
  /\ now = 0
  /\ lastActivity = [c \in Clients |-> 0]
  /\ rc = [c \in Clients |-> "none"]
  /\ slaveDestroyed = FALSE

-----------------------------------------------------------------------------
(* Meter::readTelegram byte by byte, meter.cpp:226-294.  A byte is '/',    *)
(* '!' or any other character.                                             *)

Bytes == {"/", "!", "x"}

\* what one read() can deliver: 1 to BUFFER_SIZE bytes
Chunks == UNION {[1..n -> Bytes] : n \in 1..BUFFER_SIZE}

\* mutant: bytes are stored from the first byte on
Begins_Always(begin, c) == TRUE

\* line 267-268: if (c == '/') messageBegin = true;
Begins(begin, c) == begin \/ c = "/"

\* line 271: packetPos >= 3 && packet[packetPos - 3] == '!'
Terminated(pkt) == Len(pkt) >= 3 /\ pkt[Len(pkt) - 2] = "!"

\* line 265-276: the for loop over the bytes of one read, from byte i on
RECURSIVE ProcessBytes(_, _, _)
ProcessBytes(st, chunk, i) ==
  IF i > Len(chunk) \/ Len(st.packet) >= TELEGRAM_SIZE
    THEN st
  ELSE LET begin == Begins(st.begin, chunk[i])
           pkt == IF begin THEN Append(st.packet, chunk[i]) ELSE st.packet
       IN  IF begin /\ Terminated(pkt)
             THEN [packet |-> pkt, begin |-> begin, complete |-> TRUE]
             ELSE ProcessBytes([packet |-> pkt, begin |-> begin,
                                complete |-> FALSE], chunk, i + 1)

readFrame ==
  /\ ~crashed
  /\ UNCHANGED <<running_, mqttVars, slaveVars, sysVars, packVars, sigVars, valVars, histVars>>

\* line 227-240: the entry checks (the port is open) and the locals
ReadCall ==
  /\ rpc = "idle"
  /\ IF ~running_
       THEN rpc' = "error" /\ rErr' = "EINTR"
       ELSE rpc' = "loop" /\ rErr' = rErr
  /\ packet' = <<>>
  /\ messageBegin' = FALSE
  /\ telegramComplete' = FALSE
  /\ readFrame
  /\ UNCHANGED <<telegram_, received, reads>>

\* line 243-277: one pass of the while loop: the shutdown check, read(),
\* its failure (-1), its timeout (0) or the processing of its bytes
ReadLoop ==
  /\ rpc = "loop"
  /\ IF ~(Len(packet) < TELEGRAM_SIZE /\ ~telegramComplete)
       THEN /\ rpc' = "check"
            /\ UNCHANGED <<packet, messageBegin, telegramComplete, rErr,
                           received, reads>>
     ELSE IF ~running_
       THEN /\ rpc' = "error" /\ rErr' = "EINTR"
            /\ UNCHANGED <<packet, messageBegin, telegramComplete, received,
                           reads>>
     ELSE \/ /\ \E e \in ReadErrnos \cup {"ETIMEDOUT"} : rErr' = e
             /\ rpc' = "error"
             /\ UNCHANGED <<packet, messageBegin, telegramComplete, received,
                            reads>>
          \/ /\ reads < MaxReads
             /\ \E chunk \in Chunks :
                  LET st == ProcessBytes([packet |-> packet,
                                          begin |-> messageBegin,
                                          complete |-> FALSE], chunk, 1)
                  IN  /\ packet' = st.packet
                      /\ messageBegin' = st.begin
                      /\ telegramComplete' = st.complete
                      /\ received' = received \o chunk
             /\ reads' = reads + 1
             /\ UNCHANGED <<rpc, rErr>>
  /\ readFrame
  /\ UNCHANGED telegram_

\* line 279-293: the final check, and telegram_.assign
ReadCheck ==
  /\ rpc = "check"
  /\ IF Len(packet) < 3 \/ packet[Len(packet) - 2] # "!"
       THEN rpc' = "error" /\ rErr' = "EPROTO" /\ telegram_' = telegram_
       ELSE rpc' = "ok" /\ telegram_' = packet /\ rErr' = rErr
  /\ readFrame
  /\ UNCHANGED <<packet, messageBegin, telegramComplete, received, reads>>

----------------------------------------------------------------------------
(* Meter, meter.cpp, and main(), main.cpp:116-148.  The configuration has  *)
(* no modbus section, so the callbacks only publish (main.cpp:95-100).     *)
(* cbMutex_ is held by a setter for its whole body and by the worker       *)
(* around the device and values callbacks; the availability callback is    *)
(* read and called without it (meter.cpp:49-50, 214-215).                  *)

\* the descriptor open() returns
SerialFd == 3

\* if (availabilityCallback_) availabilityCallback_(payload), unlocked.
\* While setAvailabilityCallback is assigning the std::function the read
\* races with the write: the test may see the old (empty) or the new
\* target, or the call goes through a half-written object.
AvailabilityCall(payload) ==
  \/ /\ availabilityCallback_ \in {"set", "writing"}
     /\ publish(payload, "availability")
     /\ availCalls' = Append(availCalls, payload)
     /\ crashed' = crashed
  \/ /\ availabilityCallback_ \in {"empty", "writing"}
     /\ UNCHANGED <<mqttVars, availCalls, crashed>>
  \/ /\ availabilityCallback_ = "writing"
     /\ crashed' = TRUE
     /\ UNCHANGED <<mqttVars, availCalls>>

\* Meter::disconnect, meter.cpp:43-55
disconnect ==
  IF serialPort_ # -1
    THEN /\ fdOpen' = FALSE
         /\ serialPort_' = -1
         /\ AvailabilityCall("disconnected")
    ELSE UNCHANGED <<fdOpen, serialPort_, mqttVars, availCalls, crashed>>

\* cbMutex_ is free: no setter is inside its critical section
cbMutexFree == availabilityCallback_ # "writing"

NoErr == [code |-> "ok", from |-> "none"]

\* the telegrams the meter can send: all lines well-formed (scenario S1), a
\* line that is no OBIS expression (scenario S2: "garbage"), or an OBIS
\* expression of a known code whose value is no number
TelegramKinds == {"nominal", "malformed line", "bad number"}

meterFrame ==
  /\ ~crashed
  /\ UNCHANGED <<slaveVars, mainPc, callbackVars, linkFaults, readVars,
                 packVars, sigVars, valVars, histVars>>

\* line 589: while (handler_.isRunning())
MeterLoop ==
  /\ mpc = "loop"
  /\ mpc' = IF running_ THEN "connect" ELSE "exited"
  /\ iterCalls' = <<>>
  /\ mErr' = NoErr
  /\ meterFrame
  /\ UNCHANGED <<running_, mqttVars, serialPort_, fdOpen, telegrams, telegramKind,
                 availCalls, connects, crashed>>

\* tryConnect up to the log line, meter.cpp:104-212.  open() fails and
\* leaves serialPort_ at -1; isatty()/flock()/ioctl()/tc*attr() fail after
\* close(serialPort_), which leaves serialPort_ at the stale descriptor.
MeterConnect ==
  /\ mpc = "connect"
  /\ IF ~running_
       THEN /\ mErr' = [code |-> "EINTR", from |-> "connect"]
            /\ mpc' = "handle"
            /\ UNCHANGED <<serialPort_, fdOpen, connects>>
     ELSE IF serialPort_ >= 0
       THEN /\ mpc' = "read"
            /\ UNCHANGED <<serialPort_, fdOpen, mErr, connects>>
     ELSE /\ connects < MaxConnects
          /\ connects' = connects + 1
          /\ \/ /\ serialPort_' = SerialFd /\ fdOpen' = TRUE
                /\ mpc' = "avail"
                /\ mErr' = mErr
             \/ /\ \E e \in OpenErrnos :
                     mErr' = [code |-> e, from |-> "connect"]
                /\ mpc' = "handle"
                /\ UNCHANGED <<serialPort_, fdOpen>>
             \/ /\ \E e \in SetupErrnos :
                     mErr' = [code |-> e, from |-> "connect"]
                /\ serialPort_' = SerialFd /\ fdOpen' = FALSE
                /\ mpc' = "handle"
  /\ meterFrame
  /\ UNCHANGED <<running_, mqttVars, telegrams, telegramKind, availCalls, iterCalls,
                 crashed>>

\* line 214-215
MeterAvail ==
  /\ mpc = "avail"
  /\ AvailabilityCall("connected")
  /\ mpc' = "cwait"
  /\ meterFrame
  /\ UNCHANGED <<running_, serialPort_, fdOpen, mErr, telegrams, telegramKind, connects,
                 iterCalls>>

\* line 217-223: wait_for returns after a second or on shutdown
MeterConnectWait ==
  /\ mpc = "cwait"
  /\ cbMutexFree
  /\ mpc' = "read"
  /\ meterFrame
  /\ UNCHANGED <<running_, mqttVars, serialPort_, fdOpen, mErr, telegrams, telegramKind,
                 availCalls, connects, iterCalls, crashed>>

\* Meter::handleResult on an error, meter.cpp:74-102, and what runLoop
\* does with the action: SHUTDOWN breaks; RECONNECT continues, except after
\* tryConnect, where the loop goes on to readTelegram (line 592-597)
MeterHandle ==
  /\ mpc = "handle"
  /\ LET sev == deduceSeverity(mErr.code)
     IN  \/ /\ sev = "FATAL"
            /\ running_' = FALSE
            /\ mpc' = "exited"
            /\ mErr' = NoErr
            /\ UNCHANGED <<fdOpen, serialPort_, mqttVars, availCalls, crashed>>
         \/ /\ sev = "TRANSIENT"
            /\ disconnect
            /\ mpc' = IF mErr.from = "connect" THEN "read" ELSE "loop"
            /\ UNCHANGED <<running_, mErr>>
         \/ /\ sev = "SHUTDOWN"
            /\ mpc' = "exited"
            /\ mErr' = NoErr
            /\ UNCHANGED <<running_, fdOpen, serialPort_, mqttVars,
                           availCalls, crashed>>
  /\ meterFrame
  /\ UNCHANGED <<telegrams, telegramKind, connects, iterCalls>>

\* readTelegram, meter.cpp:226-294: EINTR on shutdown, ENOTCONN without a
\* port, a failed read(), a read() of 0 bytes (ETIMEDOUT), a stream out of
\* sync (EPROTO), or a telegram
MeterRead ==
  /\ mpc = "read"
  /\ IF ~running_
       THEN /\ mErr' = [code |-> "EINTR", from |-> "read"]
            /\ mpc' = "handle"
            /\ UNCHANGED <<telegrams, telegramKind>>
     ELSE IF serialPort_ = -1
       THEN /\ mErr' = [code |-> "ENOTCONN", from |-> "read"]
            /\ mpc' = "handle"
            /\ UNCHANGED <<telegrams, telegramKind>>
     ELSE \/ /\ telegrams < MaxTelegrams
             /\ telegrams' = telegrams + 1
             /\ \E k \in TelegramKinds : telegramKind' = k
             /\ mpc' = "device"
             /\ mErr' = mErr
          \/ /\ \E e \in ReadErrnos \cup {"ETIMEDOUT", "EPROTO"} :
                  mErr' = [code |-> e, from |-> "read"]
             /\ mpc' = "handle"
             /\ UNCHANGED <<telegrams, telegramKind>>
  /\ meterFrame
  /\ UNCHANGED <<running_, mqttVars, serialPort_, fdOpen, availCalls,
                 connects, iterCalls, crashed>>

\* mutant: the device parser accepts every line
DeviceParseFails_Never(kind) == FALSE

\* updateDeviceAndJson, meter.cpp:521-557: every line that is not empty and
\* does not start with '!' must match the version or the OBIS pattern
DeviceParseFails(kind) == kind = "malformed line"

\* updateValuesAndJson, meter.cpp:323-371: every line that is not empty and
\* does not start with '/' or '!' must match the OBIS pattern, and the value
\* of a known OBIS code must convert with std::stod / std::stoul
ValuesParseFails(kind) == kind \in {"malformed line", "bad number"}

\* line 603-608: updateDeviceAndJson (meter.cpp:497-586): EINTR on shutdown,
\* EPROTO for a malformed line, or device_ is replaced
MeterDevice ==
  /\ mpc = "device"
  /\ IF ~running_
       THEN /\ mErr' = [code |-> "EINTR", from |-> "device"]
            /\ mpc' = "handle"
     ELSE IF DeviceParseFails(telegramKind)
       THEN /\ mErr' = [code |-> "EPROTO", from |-> "device"]
            /\ mpc' = "handle"
     ELSE mpc' = "device_cb" /\ mErr' = mErr
  /\ meterFrame
  /\ UNCHANGED <<running_, mqttVars, serialPort_, fdOpen, telegrams, telegramKind,
                 availCalls, connects, iterCalls, crashed>>

\* mutant: the loop goes on without the device callback
MeterDeviceCallback_Skipped ==
  /\ mpc = "device_cb"
  /\ mpc' = "values"
  /\ meterFrame
  /\ UNCHANGED <<running_, mqttVars, serialPort_, fdOpen, mErr, telegrams, telegramKind,
                 availCalls, connects, iterCalls, crashed>>

\* line 610-616: the device callback under cbMutex_ (main.cpp:129-135
\* publishes the JSON on the device topic)
MeterDeviceCallback ==
  /\ mpc = "device_cb"
  /\ mpc' = "values"
  /\ IF running_
       THEN /\ cbMutexFree
            /\ IF deviceCallback_ = "set"
                 THEN /\ publish("d1", "device")
                      /\ iterCalls' = Append(iterCalls, "device")
                 ELSE /\ UNCHANGED mqttVars
                      /\ iterCalls' = Append(iterCalls, "device_unset")
       ELSE UNCHANGED <<mqttVars, iterCalls>>
  /\ meterFrame
  /\ UNCHANGED <<running_, serialPort_, fdOpen, mErr, telegrams, telegramKind, availCalls,
                 connects, crashed>>

\* line 618-623: updateValuesAndJson (meter.cpp:296-495)
MeterValues ==
  /\ mpc = "values"
  /\ IF ~running_
       THEN /\ mErr' = [code |-> "EINTR", from |-> "values"]
            /\ mpc' = "handle"
     ELSE IF ValuesParseFails(telegramKind)
       THEN /\ mErr' = [code |-> "EPROTO", from |-> "values"]
            /\ mpc' = "handle"
     ELSE mpc' = "values_cb" /\ mErr' = mErr
  /\ meterFrame
  /\ UNCHANGED <<running_, mqttVars, serialPort_, fdOpen, telegrams, telegramKind,
                 availCalls, connects, iterCalls, crashed>>

\* line 625-630: the update callback under cbMutex_ (main.cpp:122-128
\* publishes the JSON on the values topic)
MeterValuesCallback ==
  /\ mpc = "values_cb"
  /\ mpc' = "loop"
  /\ IF running_
       THEN /\ cbMutexFree
            /\ IF updateCallback_ = "set"
                 THEN /\ publish("v1", "values")
                      /\ iterCalls' = Append(iterCalls, "update")
                 ELSE UNCHANGED <<mqttVars, iterCalls>>
       ELSE UNCHANGED <<mqttVars, iterCalls>>
  /\ meterFrame
  /\ UNCHANGED <<running_, serialPort_, fdOpen, mErr, telegrams, telegramKind, availCalls,
                 connects, crashed>>

mainFrame ==
  /\ ~crashed
  /\ UNCHANGED <<running_, mqttVars, slaveVars, readVars, packVars, sigVars, valVars, histVars,
                 meterVars, crashed,
                 linkFaults>>

\* main.cpp:122-128
MainSetUpdate ==
  /\ mainPc = "set_update"
  /\ updateCallback_' = "set"
  /\ mainPc' = "set_device"
  /\ mainFrame
  /\ UNCHANGED <<deviceCallback_, availabilityCallback_>>

\* main.cpp:129-135
MainSetDevice ==
  /\ mainPc = "set_device"
  /\ deviceCallback_' = "set"
  /\ mainPc' = "set_avail"
  /\ mainFrame
  /\ UNCHANGED <<updateCallback_, availabilityCallback_>>

\* main.cpp:136-138, meter.cpp:69-72: the move assignment begins
MainSetAvailBegin ==
  /\ mainPc = "set_avail"
  /\ availabilityCallback_' = "writing"
  /\ mainPc' = "set_avail_end"
  /\ mainFrame
  /\ UNCHANGED <<updateCallback_, deviceCallback_>>

\* the move assignment is complete, cbMutex_ is released
MainSetAvailEnd ==
  /\ mainPc = "set_avail_end"
  /\ availabilityCallback_' = "set"
  /\ mainPc' = "wait"
  /\ mainFrame
  /\ UNCHANGED <<updateCallback_, deviceCallback_>>

\* main.cpp:141: handler.wait() returns once running_ is false
MainWait ==
  /\ mainPc = "wait"
  /\ ~running_
  /\ mainPc' = "meter_join"
  /\ mainFrame
  /\ UNCHANGED callbackVars

\* ~Meter, meter.cpp:36-39: notify_all and join the worker
MainMeterJoin ==
  /\ mainPc = "meter_join"
  /\ mpc = "exited"
  /\ mainPc' = "meter_disconnect"
  /\ mainFrame
  /\ UNCHANGED callbackVars

\* ~Meter, meter.cpp:40: disconnect()
MainMeterDisconnect ==
  /\ ~crashed
  /\ mainPc = "meter_disconnect"
  /\ disconnect
  /\ mainPc' = "mqtt_dtor"
  /\ UNCHANGED <<running_, slaveVars, readVars, packVars, sigVars, valVars, histVars, mpc, mErr,
                 telegrams, telegramKind, connects,
                 iterCalls, callbackVars, linkFaults>>

\* ~MqttClient starts once ~Meter is done (reverse order of construction)
MainMqttDestroy == mainPc = "mqtt_dtor" /\ MqttDtorNotify

\* main returns
MainDone ==
  /\ mainPc = "mqtt_dtor"
  /\ mqttDtor = "done"
  /\ mainPc' = "done"
  /\ mainFrame
  /\ UNCHANGED callbackVars

----------------------------------------------------------------------------
(* ModbusUtils::packToModbus, modbus_utils.h:42-171, applied to a mapping   *)
(* with arbitrary earlier contents                                          *)

NoPack == [kind |-> "none"]

ZeroTab == [a \in Addrs |-> 0]

\* contents of the mapping before the call: as allocated, as left by a
\* string of 'A' characters that filled every register, and all bits set
PriorTabs == {ZeroTab, [a \in Addrs |-> 16705], [a \in Addrs |-> 65535]}

\* decimals at the call sites of updateValues, modbus_slave.cpp:278-347
Decimals == 0 .. 3

\* real values in thousandths; with three decimals 259.2 and -100.5 leave
\* the range of int16_t
SmallReals == {0, 499, 500, -500, 1499, 2500, -2500, 75180, 259200, -100500}

\* calls of the scale-factor overload: any value with any number of
\* decimals into M20X::W, currents with three decimals (40 A is out of
\* range), powers beyond 32767 W with none, and energies into the 32-bit
\* accumulator (a negative one is out of range)
ScaledCalls ==
  { [kind |-> "scaled", reg |-> M20X_W, sf |-> M20X_W_SF, value |-> v,
     decimals |-> d] : v \in SmallReals, d \in Decimals }
  \cup { [kind |-> "scaled", reg |-> M20X_A, sf |-> M20X_A_SF, value |-> v,
          decimals |-> 3] : v \in {1173, 32767, 32768, 40000, -32768, -32769} }
  \cup { [kind |-> "scaled", reg |-> M20X_W, sf |-> M20X_W_SF, value |-> v,
          decimals |-> 0] : v \in {40000000, -40000000} }
  \cup { [kind |-> "scaled", reg |-> M20X_TOTWH_IMP, sf |-> M20X_TOTWH_SF,
          value |-> v, decimals |-> 1] : v \in {0, 1234567, 6553650, -1000} }
  \cup { [kind |-> "scaled", reg |-> M21X_W, sf |-> M20X_W_SF, value |-> 500,
          decimals |-> 0] }

\* strings for C001::VR (8 registers): lengths 0, 1, 2, 3, 15, 16 and 17
StringCalls ==
  { [kind |-> "string", reg |-> C001_VR, value |-> v] :
      v \in { <<>>, <<49>>, <<49, 46>>, <<49, 46, 50>>,
              [i \in 1 .. 15 |-> 96 + i], [i \in 1 .. 16 |-> 96 + i],
              [i \in 1 .. 17 |-> 96 + i] } }

\* no register of the program has type UINT64; the case at
\* modbus_utils.h:68-71 is exercised at four registers of the mapping
UINT64_REG == Register(40097, 4, "UINT64")

RECURSIVE Rotations(_, _)
\* the sequence s rotated by 0 .. n-1 places
Rotations(s, n) ==
  IF n = 0 THEN {}
  ELSE {s} \cup Rotations(Tail(s) \o <<Head(s)>>, n - 1)

\* memory images (least significant byte first) of the integers handed to
\* packToModbus<uint32_t> and packToModbus<uint64_t>: 0x53756E53 ("SunS",
\* modbus_slave.cpp:66) and its rotations, every mix of 0x00 and 0xFF bytes,
\* and for 64 bits eight different bytes and their rotations
IntegerCalls ==
  { [kind |-> "integer", reg |-> C001_SID, value |-> b] :
      b \in Rotations(<<83, 110, 117, 83>>, 4) \cup [1 .. 4 -> {0, 255}] }
  \cup { [kind |-> "integer", reg |-> UINT64_REG, value |-> b] :
           b \in Rotations(<<17, 34, 51, 68, 85, 102, 119, 136>>, 8)
                   \cup {[i \in 1 .. 8 |-> 0], [i \in 1 .. 8 |-> 255],
                         <<83, 110, 117, 83, 0, 0, 0, 128>>} }

packFrame ==
  UNCHANGED <<running_, mqttVars, slaveVars, sysVars, readVars, sigVars, valVars, histVars>>

\* packToModbus(dest, reg, sf, realValue, decimals)
PackScaled ==
  /\ packRet = "none"
  /\ \E c \in ScaledCalls :
       /\ packArg' = c
       /\ tab' \in packToModbusSF(tab, c.reg, c.sf, c.value, c.decimals)
       /\ packRet' = IF c.reg.TYPE \in {"INT16", "UINT16", "UINT32", "UINT64"}
                       THEN "ok" ELSE "EINVAL"
  /\ packFrame

\* packToModbus<std::string>(dest, reg, value)
PackString ==
  /\ packRet = "none"
  /\ \E c \in StringCalls :
       /\ packArg' = c
       /\ tab' = packToModbusString(tab, c.reg, c.value)
       /\ packRet' = IF StringTooLong(c.reg, c.value) THEN "EINVAL" ELSE "ok"
  /\ packFrame

\* packToModbus<uint32_t> and packToModbus<uint64_t>, lines 64-71
PackInteger ==
  /\ packRet = "none"
  /\ \E c \in IntegerCalls :
       /\ packArg' = c
       /\ tab' = SetRegs(tab, c.reg.ADDR, packBuf(c.value))
       /\ packRet' = "ok"
  /\ packFrame

\* the next call finds a mapping with other contents
PackReset ==
  /\ packRet # "none"
  /\ tab' \in PriorTabs
  /\ packArg' = NoPack
  /\ packRet' = "none"
  /\ packFrame

\* no packToModbus call in progress, mapping as allocated
PackIdle == tab = ZeroTab /\ packArg = NoPack /\ packRet = "none"

----------------------------------------------------------------------------
(* SignalHandler, signal_handler.h.  The handler installed by the          *)
(* constructor (lines 13-18) runs on whichever thread the kernel delivers  *)
(* the signal to, on top of what that thread is doing; shutdown() (39-45)  *)
(* is also called by the workers on a fatal error; wait() (48-51) is       *)
(* called by main().                                                       *)

MaxSignals == 2

\* main() and one worker that may call shutdown()
Threads == {"main", "worker"}

\* no thread is in wait() or shutdown(), no handler is running
SigIdle ==
  /\ mtx_ = "free"
  /\ tpc = [t \in Threads |-> "run"]
  /\ hpc = [t \in Threads |-> "none"]
  /\ cvNotified = FALSE
  /\ signals = 0

sigFrame ==
  UNCHANGED <<mqttVars, slaveVars, sysVars, readVars, packVars, valVars, histVars>>

\* the thread runs its own code: no handler frame is on top of it
OnThread(t) == hpc[t] = "none"

\* line 49: std::unique_lock lock(mtx_)
WaitLock ==
  /\ OnThread("main")
  /\ tpc["main"] = "run"
  /\ mtx_ = "free"
  /\ mtx_' = "main"
  /\ tpc' = [tpc EXCEPT !["main"] = "pred"]
  /\ UNCHANGED <<running_, hpc, cvNotified, signals>>
  /\ sigFrame

\* line 50: the predicate !running_.load(); false: release mtx_ and block
WaitPred ==
  /\ OnThread("main")
  /\ tpc["main"] = "pred"
  /\ mtx_' = "free"
  /\ IF ~running_
       THEN /\ tpc' = [tpc EXCEPT !["main"] = "returned"]
            /\ UNCHANGED cvNotified
       ELSE /\ tpc' = [tpc EXCEPT !["main"] = "blocked"]
            /\ cvNotified' = FALSE
  /\ UNCHANGED <<running_, hpc, signals>>
  /\ sigFrame

\* line 50: woken by notify_all; take mtx_ again and test the predicate
WaitWake ==
  /\ OnThread("main")
  /\ tpc["main"] = "blocked"
  /\ cvNotified
  /\ mtx_ = "free"
  /\ mtx_' = "main"
  /\ cvNotified' = FALSE
  /\ tpc' = [tpc EXCEPT !["main"] = "pred"]
  /\ UNCHANGED <<running_, hpc, signals>>
  /\ sigFrame

\* a worker calls handler_.shutdown() on a fatal error
ShutdownCall ==
  /\ OnThread("worker")
  /\ tpc["worker"] = "run"
  /\ tpc' = [tpc EXCEPT !["worker"] = "lock"]
  /\ UNCHANGED <<running_, mtx_, hpc, cvNotified, signals>>
  /\ sigFrame

\* line 41: std::lock_guard lock(mtx_)
ShutdownLock ==
  /\ OnThread("worker")
  /\ tpc["worker"] = "lock"
  /\ mtx_ = "free"
  /\ mtx_' = "worker"
  /\ tpc' = [tpc EXCEPT !["worker"] = "store"]
  /\ UNCHANGED <<running_, hpc, cvNotified, signals>>
  /\ sigFrame

\* line 42-43: running_.store(false); the guard releases mtx_
ShutdownStore ==
  /\ OnThread("worker")
  /\ tpc["worker"] = "store"
  /\ running_' = FALSE
  /\ tpc' = [tpc EXCEPT !["worker"] = "unlock"]
  /\ UNCHANGED <<mtx_, hpc, cvNotified, signals>>
  /\ sigFrame

ShutdownUnlock ==
  /\ OnThread("worker")
  /\ tpc["worker"] = "unlock"
  /\ mtx_' = "free"
  /\ tpc' = [tpc EXCEPT !["worker"] = "notify"]
  /\ UNCHANGED <<running_, hpc, cvNotified, signals>>
  /\ sigFrame

\* line 44: cv_.notify_all()
ShutdownNotify ==
  /\ OnThread("worker")
  /\ tpc["worker"] = "notify"
  /\ cvNotified' = TRUE
  /\ tpc' = [tpc EXCEPT !["worker"] = "done"]
  /\ UNCHANGED <<running_, mtx_, hpc, signals>>
  /\ sigFrame

\* SIGINT or SIGTERM is delivered to thread t, wherever it is
Deliver(t) ==
  /\ hpc[t] = "none"
  /\ signals < MaxSignals
  /\ signals' = signals + 1
  /\ hpc' = [hpc EXCEPT ![t] = "entered"]
  /\ UNCHANGED <<running_, mtx_, tpc, cvNotified>>
  /\ sigFrame

\* line 14-16: if (instance_ && instance_->running_.load()) signal_ = sig
HandlerCheck(t) ==
  /\ hpc[t] = "entered"
  /\ hpc' = [hpc EXCEPT ![t] = IF running_ THEN "lock" ELSE "none"]
  /\ UNCHANGED <<running_, mtx_, tpc, cvNotified, signals>>
  /\ sigFrame

\* line 17 -> 41: the lock_guard of shutdown(), on the interrupted thread.
\* mtx_ is a std::mutex: when the thread below the handler owns it, the
\* lock never returns
HandlerLock(t) ==
  /\ hpc[t] = "lock"
  /\ mtx_ = "free"
  /\ mtx_' = t
  /\ hpc' = [hpc EXCEPT ![t] = "store"]
  /\ UNCHANGED <<running_, tpc, cvNotified, signals>>
  /\ sigFrame

\* line 42-43
HandlerStore(t) ==
  /\ hpc[t] = "store"
  /\ running_' = FALSE
  /\ hpc' = [hpc EXCEPT ![t] = "unlock"]
  /\ UNCHANGED <<mtx_, tpc, cvNotified, signals>>
  /\ sigFrame

HandlerUnlock(t) ==
  /\ hpc[t] = "unlock"
  /\ mtx_' = "free"
  /\ hpc' = [hpc EXCEPT ![t] = "notify"]
  /\ UNCHANGED <<running_, tpc, cvNotified, signals>>
  /\ sigFrame

\* line 44, then the handler returns to the interrupted code
HandlerNotify(t) ==
  /\ hpc[t] = "notify"
  /\ cvNotified' = TRUE
  /\ hpc' = [hpc EXCEPT ![t] = "none"]
  /\ UNCHANGED <<running_, mtx_, tpc, signals>>
  /\ sigFrame

----------------------------------------------------------------------------
(* Meter::updateValuesAndJson, derived quantities, meter.cpp:374-433.      *)
(* A double is a record: a finite value in thousandths (rounded down), an  *)
(* infinity or a NaN, with the IEEE-754 rules for x / 0 and inf - inf.     *)

Fin(m) == [k |-> "fin", m |-> m]
PlusInf == [k |-> "+inf", m |-> 0]
MinusInf == [k |-> "-inf", m |-> 0]
NaN == [k |-> "nan", m |-> 0]

\* n / d for integers n and d >= 0 (d is +0.0 when it is 0), in thousandths
DivDouble(n, d) ==
  IF d = 0
    THEN IF n = 0 THEN NaN ELSE IF n > 0 THEN PlusInf ELSE MinusInf
    ELSE Fin((1000 * n) \div d)

AddDouble(a, b) ==
  IF a.k = "nan" \/ b.k = "nan" THEN NaN
  ELSE IF a.k = "fin" /\ b.k = "fin" THEN Fin(a.m + b.m)
  ELSE IF a.k = "fin" THEN b
  ELSE IF b.k = "fin" THEN a
  ELSE IF a.k = b.k THEN a ELSE NaN

\* x >= 0 as the comparison of doubles (false for a NaN)
NonNegative(x) == x.k = "+inf" \/ (x.k = "fin" /\ x.m >= 0)

\* per-phase active power (W) and phase voltage (V) a telegram reports
TelegramPowers == {-115, 0, 230}
TelegramVoltages == {0, 230}
Phases == 1 .. 3

\* configured power factors, in hundredths; without a grid section the
\* power factor is 0.95 (line 375)
GridPowerFactors == {95, 100}
powerFactor == IF cfg_grid = 0 THEN 95 ELSE cfg_grid

NoValuesYet == [phVoltage |-> Fin(0), current |-> Fin(0),
                phaseCurrent |-> [p \in Phases |-> Fin(0)],
                activePower |-> [p \in Phases |-> 0]]

ValIdle ==
  /\ cfg_grid = 0
  /\ vpc = "parse"
  /\ values_ = NoValuesYet
  /\ cbValues = NoValuesYet

\* lines 407-410 and 425-433: phVoltage is the mean of the phase voltages,
\* each phase current is activePower / (phVoltage * powerFactor), current
\* their sum
deriveValues(power, voltage) ==
  LET i == [p \in Phases |->
              DivDouble(100 * power[p], voltage[p] * powerFactor)]
  IN  [phVoltage |-> DivDouble(voltage[1] + voltage[2] + voltage[3], 3),
       current |-> AddDouble(AddDouble(i[1], i[2]), i[3]),
       phaseCurrent |-> i,
       activePower |-> power]

valFrame ==
  UNCHANGED <<running_, mqttVars, slaveVars, sysVars, readVars, packVars,
              sigVars, histVars, cfg_grid>>

\* runLoop line 619: updateValuesAndJson accepts the telegram and stores
\* values_ (lines 485-490)
ParseValues ==
  /\ vpc = "parse"
  /\ \E power \in [Phases -> TelegramPowers],
        voltage \in [Phases -> TelegramVoltages] :
       values_' = deriveValues(power, voltage)
  /\ vpc' = "callback"
  /\ UNCHANGED cbValues
  /\ valFrame

\* runLoop line 625-630: updateCallback_(jsonValues_.dump(), values_)
UpdateCallback ==
  /\ vpc = "callback"
  /\ cbValues' = values_
  /\ vpc' = "parse"
  /\ UNCHANGED values_
  /\ valFrame

----------------------------------------------------------------------------
(* Initial states: the state after main() has constructed the components   *)

MqttInit ==
  /\ cfg_queueSize \in 1 .. MaxQueueSize
  /\ connected_ = FALSE
  /\ mutex_ = "free"
  /\ topicQueues_ = [t \in Topics |-> <<>>]
  /\ lastPayloadHashes_ = <<>>
  /\ droppedCount_ = [t \in Topics |-> 0]
  /\ wpc = "while"
  /\ wTopic = 1
  /\ wPayload = NoMessage
  /\ wNotified = FALSE
  /\ mqttDtor = "none"
  /\ nextId = 1
  /\ brokerLog = [t \in Topics |-> <<>>]
  /\ failedLog = {}
  /\ stopSeen = FALSE
  /\ acceptLog = [t \in Topics |-> <<>>]
  /\ lastPublish = [n |-> 0, payload |-> "", topic |-> "", accepted |-> FALSE]

SlaveInitWith(useFloat) ==
  /\ cfg_useFloatModel = useFloat
  /\ heap = <<startListenerRegs(useFloat)>>
  /\ regs_ = 1
  /\ deviceUpdated_ = FALSE
  /\ uvpc = "idle" /\ uvArg = NoValues /\ uvOld = 0 /\ uvNew = 0
  /\ udpc = "idle" /\ udArg = NoDevice /\ udOld = 0 /\ udNew = 0
  /\ rdpc = "idle" /\ rdReq = NoRequest /\ rdRegs = 0 /\ rdReply = <<>>
  /\ pubLog = <<[handle |-> 1, regs |-> startListenerRegs(useFloat)]>>
  /\ rdVersion = 0
  /\ rdSeen = 0
  /\ uvCalls = 0 /\ udCalls = 0 /\ rdCalls = 0
  /\ uvReturn = [n |-> 0, arg |-> NoValues, pub |-> 0, running |-> FALSE]
  /\ udReturn = [n |-> 0, how |-> "none"]

SysInit ==
  /\ mainPc = "set_update"
  /\ mpc = "loop"
  /\ serialPort_ = -1
  /\ fdOpen = FALSE
  /\ updateCallback_ = "empty"
  /\ deviceCallback_ = "empty"
  /\ availabilityCallback_ = "empty"
  /\ mErr = [code |-> "ok", from |-> "none"]
  /\ iterCalls = <<>>
  /\ telegrams = 0
  /\ telegramKind = "none"
  /\ crashed = FALSE
  /\ availCalls = <<>>
  /\ connects = 0
  /\ linkFaults = FALSE
  /\ rpc = "idle"
  /\ packet = <<>>
  /\ messageBegin = FALSE
  /\ telegramComplete = FALSE
  /\ telegram_ = <<>>
  /\ rErr = "ok"
  /\ received = <<>>
  /\ reads = 0

----------------------------------------------------------------------------
(* SpecMqtt: MqttClient with arbitrary callers of publish()                *)

CallPublish ==
  /\ ~crashed
  /\ mqttDtor = "none"
  /\ lastPublish.n < MaxPublish
  /\ \E p \in EnvPayloads, t \in EnvTopics : publish(p, t)
  /\ UNCHANGED <<running_, slaveVars, sysVars, readVars, packVars, sigVars, valVars, histVars>>

InitMqtt ==
  /\ running_ = TRUE
  /\ MqttInit
  /\ SlaveInitWith(FALSE)
  /\ ServerInitWith(TRUE)
  /\ SysInit
  /\ PackIdle
  /\ SigIdle
  /\ ValIdle
  /\ recording = TRUE

\* ~MqttClient runs after handler.wait() has returned (main.cpp:141-148)
MqttDestroy == ~running_ /\ MqttDtorNotify

NextMqtt ==
  \/ CallPublish
  \/ RunWhile \/ RunPredConnected \/ RunPredRunning \/ RunBlock \/ RunWake
  \/ RunPostRunning \/ RunPostConnected \/ RunInner
  \/ RunPublish \/ RunPublished \/ RunFailed
  \/ onConnect \/ onDisconnect
  \/ Signal
  \/ MqttDestroy \/ MqttDtorJoin

SpecMqtt == InitMqtt /\ [][NextMqtt]_vars

----------------------------------------------------------------------------
(* Claims about MqttClient, checked under SpecMqtt                         *)

Payloads(log) == [i \in DOMAIN log |-> log[i].payload]
PosOf(log, msg) == CHOOSE k \in DOMAIN log : log[k] = msg
AdjacentDiffer(seq) == \A i \in 1 .. Len(seq) - 1 : seq[i] # seq[i + 1]

C3_DeliveryOrder ==
  \A t \in Topics :
    \A i \in 1 .. Len(brokerLog[t]) - 1 :
      brokerLog[t][i].id < brokerLog[t][i + 1].id

\* two deliveries on a topic around a dropped message, after a failed publish
C3_Witness ==
  /\ linkFaults
  /\ \E t \in Topics :
       /\ Len(brokerLog[t]) >= 2
       /\ Len(acceptLog[t]) > Len(brokerLog[t]) + Len(topicQueues_[t])

\* C4: no topic queue ever holds more than queue_size messages.
C4_QueueBounded ==
  \A t \in Topics : Len(topicQueues_[t]) <= cfg_queueSize

\* a full queue that has already overflowed
C4_Witness ==
  \E t \in Topics :
    Len(topicQueues_[t]) = cfg_queueSize /\ droppedCount_[t] > 0

\* C5: a publish() that accepts a payload for a full queue removes exactly
\* the head, counts one drop, appends the new payload at the tail and keeps
\* the order of the rest; other topics are untouched.
C5_DropOldest ==
  [][\A t \in Topics :
       ( /\ lastPublish'.n = lastPublish.n + 1
         /\ lastPublish'.topic = t
         /\ nextId' = nextId + 1
         /\ Len(topicQueues_[t]) = cfg_queueSize )
       => /\ topicQueues_'[t] =
               Append(Tail(topicQueues_[t]),
                      [payload |-> lastPublish'.payload, id |-> nextId])
          /\ droppedCount_'[t] = droppedCount_[t] + 1
          /\ \A u \in Topics \ {t} :
               /\ topicQueues_'[u] = topicQueues_[u]
               /\ droppedCount_'[u] = droppedCount_[u]
    ]_vars

\* the last publish() overflowed a queue of two or more: the survivor is
\* followed by the new message
C5_Witness ==
  \E t \in Topics :
    /\ cfg_queueSize >= 2
    /\ droppedCount_[t] > 0
    /\ lastPublish.accepted /\ lastPublish.topic = t
    /\ Len(topicQueues_[t]) = cfg_queueSize
    /\ topicQueues_[t][Len(topicQueues_[t])].id = nextId - 1

\* C6: publish() of the payload last accepted for the topic changes no
\* queue, no stored hash and no dropped-count, and enqueues nothing.
C6_DuplicateNoOp ==
  [][\A t \in Topics :
       ( /\ lastPublish'.n = lastPublish.n + 1
         /\ lastPublish'.topic = t
         /\ acceptLog[t] # <<>>
         /\ lastPublish'.payload = acceptLog[t][Len(acceptLog[t])].payload )
       => UNCHANGED <<topicQueues_, lastPayloadHashes_, droppedCount_,
                      acceptLog, nextId>>
    ]_vars

\* the last publish() repeated the payload accepted just before it and was
\* suppressed, after that payload had already left the queue
C6_Witness ==
  /\ lastPublish.n >= 2
  /\ ~lastPublish.accepted
  /\ lastPublish.payload =
       acceptLog[lastPublish.topic][Len(acceptLog[lastPublish.topic])].payload
  /\ topicQueues_[lastPublish.topic] = <<>>

----------------------------------------------------------------------------
(* SpecSlave: the Meter worker's updateValues / updateDevice calls against *)
(* one request handler                                                     *)

\* the messages of a sequence
\* C29: a message leaves a topic queue only in a step of the worker that
\* pops the message it has handed to the broker, or in a publish() step
\* that drops it as the head of a full queue.
C29_OnlyPublishedRemoved ==
  [][\A t \in Topics :
       \A m \in Messages(topicQueues_[t]) \ Messages(topicQueues_'[t]) :
         \/ /\ wpc = "published" /\ wpc' = "inner"
            /\ TopicOrder[wTopic] = t
            /\ m = wPayload
            /\ m \in Messages(brokerLog[t])
         \/ /\ lastPublish'.n = lastPublish.n + 1
            /\ lastPublish'.topic = t
            /\ QueueFull(topicQueues_[t])
            /\ m = Head(topicQueues_[t])]_vars

\* C31: the steps of a failed publish change no queue, no dropped-count and
\* no broker log; a message whose publish failed leaves its queue only by a
\* later successful publish of itself or as the head dropped from a full
\* queue; and whenever a message is handed to the broker no older message of
\* the topic is still queued.
C31_FailedPublishKeepsMessage ==
  [][/\ ((wpc = "publishing" /\ wpc' = "failed")
           \/ (wpc = "failed" /\ wpc' # "failed"))
          => UNCHANGED <<topicQueues_, droppedCount_, brokerLog>>
     /\ \A t \in Topics :
          \A m \in Messages(topicQueues_[t]) \ Messages(topicQueues_'[t]) :
            m \in failedLog =>
              \/ (wpc = "published" /\ m = wPayload
                    /\ m \in Messages(brokerLog[t]))
              \/ (lastPublish'.n = lastPublish.n + 1
                    /\ QueueFull(topicQueues_[t])
                    /\ m = Head(topicQueues_[t]))
     /\ \A t \in Topics :
          brokerLog'[t] # brokerLog[t] =>
            \A m \in Messages(topicQueues_[t]) :
              m.id >= brokerLog'[t][Len(brokerLog'[t])].id]_vars

\* a publish failed, the message stayed at the head with the dropped-count
\* of a full queue, and a later attempt delivered it as the first message
C31_Witness ==
  \E t \in Topics :
    /\ brokerLog[t] # <<>>
    /\ brokerLog[t][1] \in failedLog
    /\ Len(acceptLog[t]) >= 2
    /\ brokerLog[t][1] = acceptLog[t][Len(acceptLog[t]) - 1]

\* C32: when the worker observes the shutdown it makes one drain pass
\* before it leaves: it does not leave run() from the loop head, without
\* having entered the pass of a shutdown, while the link is up, no publish
\* has failed and a message is queued.
C32_DrainOnShutdown ==
  [][(wpc = "while" /\ wpc' = "stopped" /\ ~stopSeen /\ connected_
        /\ ~linkFaults)
       => ~hasQueuedMessages]_vars

InitSlave ==
  /\ running_ = TRUE
  /\ MqttInit
  /\ cfg_queueSize = 1
  /\ \E useFloat \in BOOLEAN : SlaveInitWith(useFloat)
  /\ ServerInitWith(TRUE)
  /\ SysInit
  /\ PackIdle
  /\ SigIdle
  /\ ValIdle
  /\ recording = FALSE

NextSlave ==
  \/ UV_Call \/ UV_Check \/ UV_Load \/ UV_Alloc \/ UV_Store
  \/ UD_Call \/ UD_Check \/ UD_Latch \/ UD_Load \/ UD_Alloc \/ UD_Store
  \/ RD_Receive \/ RD_Load \/ RD_ReplyReg \/ RD_Send
  \/ Signal

SpecSlave == InitSlave /\ [][NextSlave]_vars

----------------------------------------------------------------------------
(* Claims about ModbusSlave, checked under SpecSlave                       *)

\* the words of a reply that come from the registers regs
ReplyFrom(regs) ==
  \A k \in 1 .. Len(rdReply) : rdReply[k] = regs[rdReq.addr + k - 1]

\* C1: every register of a reply, complete or still being built, comes
\* from the one snapshot that was published when the handler loaded regs_.
C1_SingleSnapshot ==
  rdVersion > 0 => ReplyFrom(pubLog[rdVersion].regs)

\* a reply was completed from the snapshot loaded before an update that
\* changed both requested registers and was published while the reply was
\* being built
C1_Witness ==
  /\ rdpc = "send"
  /\ Len(rdReply) = 2
  /\ Len(pubLog) > rdVersion
  /\ \A k \in 0 .. 1 :
       pubLog[Len(pubLog)].regs[rdReq.addr + k]
         # pubLog[rdVersion].regs[rdReq.addr + k]

\* what the selected model's registers hold when they encode v: active
\* power in W and power factor in percent, as floats (M21X) or as int16
\* with scale factor 0 (M20X)
Encodes(regs, v) ==
  IF cfg_useFloatModel
    THEN /\ <<regs[40097], regs[40098]>> = FloatBits(v.activePower)
         /\ <<regs[40099], regs[40100]>> = FloatBits(v.phase1Power)
         /\ <<regs[40121], regs[40122]>> = FloatBits(v.powerFactor * 100)
         /\ <<regs[40071], regs[40072]>> = FloatBits(v.current)
    ELSE /\ regs[40087] = Scaled(v.activePower, 0) % 65536
         /\ regs[40088] = Scaled(v.phase1Power, 0) % 65536
         /\ regs[40091] = 0
         /\ regs[40071] = Scaled(v.current, 3) % 65536
         /\ regs[40075] = (-3) % 65536
         /\ regs[40102] = Scaled(v.powerFactor * 100, 0) % 65536

\* C9: once updateValues(v) has returned with running still true, the
\* snapshot it published encodes v, and a handler that loads regs_ after
\* that return is served from that snapshot or a later one.
C9_ValuesPublished ==
  /\ (uvReturn.n > 0 /\ uvReturn.running)
       => Encodes(pubLog[uvReturn.pub].regs, uvReturn.arg)
  /\ rdVersion > 0 => rdVersion >= rdSeen


\* C37: in int+SF mode the snapshot published by updateValues(v) holds the
\* power factor in percent (powerFactor * 100, rounded) in M20X::PF.
C37_PowerFactorPercent ==
  (uvReturn.n > 0 /\ ~cfg_useFloatModel)
    => pubLog[uvReturn.pub].regs[M20X_PF.ADDR]
         = Scaled(uvReturn.arg.powerFactor * 100, 0) % 65536

\* C10: once the latch is set it stays set and no step of a later
\* updateDevice call publishes, allocates or changes a register; a call
\* that returns early (shutdown, allocation failure) leaves the latch alone.
C10_Idempotent ==
  [][ /\ deviceUpdated_ => deviceUpdated_'
      /\ (deviceUpdated_ /\ udpc' # udpc)
           => /\ regs_' = regs_
              /\ pubLog' = pubLog
              /\ heap' = heap
      /\ (udReturn' # udReturn /\ udReturn'.how \in {"shutdown", "enomem"})
           => deviceUpdated_' = deviceUpdated_
    ]_vars

\* a second updateDevice call returned at the latch
C10_Witness ==
  /\ deviceUpdated_
  /\ udReturn.n >= 2
  /\ udReturn.how = "latched"

----------------------------------------------------------------------------
(* SpecSys: main, the Meter worker and the MqttClient worker               *)

InitSys ==
  /\ running_ = TRUE
  /\ MqttInit
  /\ SlaveInitWith(FALSE)
  /\ ServerInitWith(TRUE)
  /\ SysInit
  /\ PackIdle
  /\ SigIdle
  /\ ValIdle
  /\ recording = FALSE


\* the two writers of the register map called from different threads
NextWriters ==
  \/ UV_CallConcurrent \/ UV_Check \/ UV_Load \/ UV_Alloc \/ UV_Store
  \/ UD_CallConcurrent \/ UD_Check \/ UD_Latch \/ UD_Load \/ UD_Alloc
  \/ UD_Store
  \/ Signal

SpecWriters == InitSlave /\ [][NextWriters]_vars

\* the registers of the manufacturer string, as updateDevice packs them
DeviceStringsPresent(regs) ==
  \A a \in Addrs :
    (a >= C001_MN.ADDR /\ a < C001_MN.ADDR + C001_MN.NB)
      => regs[a] = packToModbusString(regs, C001_MN, Manufacturer)[a]

\* C34: once updateDevice has set its latch, the published snapshot holds
\* the device strings, whatever updateValues call runs beside it.
C34_NoLostUpdate ==
  deviceUpdated_ => DeviceStringsPresent(heap[regs_])

NextSys ==
  \/ MeterLoop \/ MeterConnect \/ MeterAvail \/ MeterConnectWait
  \/ MeterHandle \/ MeterRead \/ MeterDevice \/ MeterDeviceCallback
  \/ MeterValues \/ MeterValuesCallback
  \/ MainSetUpdate \/ MainSetDevice \/ MainSetAvailBegin \/ MainSetAvailEnd
  \/ MainWait \/ MainMeterJoin \/ MainMeterDisconnect
  \/ MainMqttDestroy \/ MqttDtorJoin \/ MainDone
  \/ RunWhile \/ RunPredConnected \/ RunPredRunning \/ RunBlock \/ RunWake
  \/ RunPostRunning \/ RunPostConnected \/ RunInner
  \/ RunPublish \/ RunPublished \/ RunFailed
  \/ onConnect \/ onDisconnect
  \/ Signal

SpecSys == InitSys /\ [][NextSys]_vars

----------------------------------------------------------------------------
(* Claims about the availability topic, checked under SpecSys              *)

LastPayload(log) == IF log = <<>> THEN "" ELSE log[Len(log)].payload

\* tryConnect has opened and configured the port and has returned
MeterConnected ==
  /\ fdOpen
  /\ serialPort_ >= 0
  /\ mpc \notin {"avail", "handle"}


\* C36: the worker's read of the availability slot (tryConnect, line
\* 214-215) is made with cbMutex_ held, hence never while a setter is
\* inside its critical section writing the slot.
C36_SlotsUnderMutex ==
  [][(mpc = "avail" /\ mpc' # "avail") => cbMutexFree]_vars

\* C7: whenever the Meter is connected, "connected" is the payload last
\* published on the availability topic.
C7_ConnectedPublished ==
  (MeterConnected /\ ~crashed)
    => LastPayload(acceptLog["availability"]) = "connected"

\* C8: after an orderly shutdown in which the Meter had been connected, the
\* broker connection stayed up and ~Meter emitted "disconnected", the last
\* availability payload the broker received is "disconnected".
C8_DisconnectedDelivered ==
  ( /\ mainPc = "done"
    /\ ~linkFaults
    /\ \E i \in DOMAIN brokerLog["availability"] :
         brokerLog["availability"][i].payload = "connected"
    /\ availCalls # <<>>
    /\ availCalls[Len(availCalls)] = "disconnected" )
  => LastPayload(brokerLog["availability"]) = "disconnected"

\* the registers startListener writes once, for the selected model
StaticAddrs ==
  {40000, 40001, 40002, 40003, 40068, 40069, 40070}
    \cup {IF cfg_useFloatModel THEN 40195 ELSE 40176}

\* C11: in every published snapshot SID reads "SunS" (0x5375, 0x6E53),
\* C001 ID is 1, C001 L is 65, DA is the slave id, and the model header and
\* the 0xFFFF end marker have the values startListener gave them.
C11_StaticRegisters ==
  \A i \in DOMAIN pubLog :
    LET regs == pubLog[i].regs
    IN  /\ regs[40000] = 21365 /\ regs[40001] = 28243
        /\ regs[40002] = 1
        /\ regs[40003] = 65
        /\ regs[40068] = cfg_slaveId
        /\ regs[40069] = (IF cfg_useFloatModel THEN 213 ELSE 203)
        /\ regs[40070] = (IF cfg_useFloatModel THEN 124 ELSE 105)
        /\ regs[IF cfg_useFloatModel THEN 40195 ELSE 40176] = 65535
        /\ \A a \in StaticAddrs : regs[a] = pubLog[1].regs[a]

\* snapshots were published by updateValues and by an updateDevice whose
\* serial number fills C001::SN up to the register before DA
C11_Witness ==
  /\ uvReturn.n > 0
  /\ udReturn.how = "published"
  /\ pubLog[Len(pubLog)].regs[40067] # 0
  /\ pubLog[Len(pubLog)].regs[40071] # 0

-----------------------------------------------------------------------------
(* The Meter worker, main() up to the return of handler.wait(), and the    *)
(* signal handler; the MQTT worker does not run, publish() only queues.    *)

runLoop ==
  \/ MeterLoop \/ MeterConnect \/ MeterAvail \/ MeterConnectWait
  \/ MeterHandle \/ MeterRead \/ MeterDevice \/ MeterDeviceCallback
  \/ MeterValues \/ MeterValuesCallback

NextMeter ==
  \/ runLoop
  \/ MainSetUpdate \/ MainSetDevice \/ MainSetAvailBegin \/ MainSetAvailEnd
  \/ MainWait
  \/ Signal

SpecMeter == InitSys /\ [][NextMeter]_vars

\* the step in which runLoop acts on the result of handleResult
HandleStep == mpc = "handle" /\ mpc' # "handle"

FatalSet ==
  {"EINVAL", "ENOMEM", "ENOENT", "ENODEV", "EACCES", "EPERM", "EBADF", "EIO",
   "EBUSY", "EMFILE", "ENFILE", "EMBMDATA", "EMBXILFUN", "EMBXILADD",
   "EMBXILVAL", "EMBXSFAIL", "EMBXGTAR"}

\* C12: an error whose code is in the fatal set makes handleResult return
\* Shutdown (the loop is left) and sets running to false.
C12_FatalShutsDown ==
  [][(HandleStep /\ mErr.code \in FatalSet)
       => (mpc' = "exited" /\ running_' = FALSE)]_vars

TransientCodes == {"EPROTO", "ETIMEDOUT", "EAGAIN", "EWOULDBLOCK"}

\* C13: an error with code EPROTO, ETIMEDOUT, EAGAIN or EWOULDBLOCK is
\* transient: the step that handles it leaves running unchanged, does not
\* leave the loop (Reconnect), and leaves serialPort_ at -1 with the
\* descriptor closed.
C13_TransientReconnects ==
  [][(HandleStep /\ mErr.code \in TransientCodes)
       => /\ running_' = running_
          /\ mpc' \in {"read", "loop"}
          /\ serialPort_' = -1
          /\ ~fdOpen']_vars

\* flock() failed with EWOULDBLOCK in tryConnect, the error has been handled
\* and runLoop goes on with the port closed
C13_Witness ==
  /\ mpc = "read"
  /\ mErr = [code |-> "EWOULDBLOCK", from |-> "connect"]
  /\ serialPort_ = -1
  /\ ~fdOpen
  /\ running_

\* C20: a read() of 0 bytes makes readTelegram fail with ETIMEDOUT without
\* storing a telegram; the error is transient; handling it leaves running
\* unchanged and takes runLoop back to the loop head, and no device or
\* values callback has been invoked in that iteration.
C20_TimeoutRetries ==
  [][/\ (mpc = "read" /\ mpc' = "handle" /\ mErr'.code = "ETIMEDOUT")
          => (telegrams' = telegrams /\ iterCalls' = <<>>)
     /\ (HandleStep /\ mErr.code = "ETIMEDOUT")
          => /\ deduceSeverity(mErr.code) = "TRANSIENT"
             /\ running_' = running_
             /\ mpc' = "loop"
             /\ telegrams' = telegrams
             /\ iterCalls' = <<>>]_vars

\* after an iteration that delivered a telegram to both callbacks, the read
\* of the next iteration timed out and the loop is back at its head
C20_Witness ==
  /\ mpc = "loop"
  /\ mErr = [code |-> "ETIMEDOUT", from |-> "read"]
  /\ running_
  /\ telegrams = MaxTelegrams
  /\ iterCalls = <<>>
  /\ acceptLog["values"] # <<>>

\* C21: a telegram with a line that is no OBIS expression makes the device
\* parser fail with EPROTO before any callback of the iteration; the error
\* is transient: handling it leaves running unchanged, closes the port,
\* reports "disconnected" to the availability callback (when one is
\* registered) and goes back to the loop head, from where the next
\* iteration opens the port again.
C21_MalformedLineReconnects ==
  [][/\ (mpc = "device" /\ mpc' # "device" /\ telegramKind = "malformed line"
           /\ running_)
          => /\ mpc' = "handle"
             /\ mErr' = [code |-> "EPROTO", from |-> "device"]
             /\ iterCalls' = <<>>
             /\ UNCHANGED <<acceptLog, serialPort_>>
     /\ (HandleStep /\ mErr = [code |-> "EPROTO", from |-> "device"])
          => /\ deduceSeverity(mErr.code) = "TRANSIENT"
             /\ running_' = running_
             /\ serialPort_ # -1 /\ serialPort_' = -1 /\ ~fdOpen'
             /\ availabilityCallback_ = "set"
                  => availCalls' = Append(availCalls, "disconnected")
             /\ iterCalls' = <<>>
             /\ mpc' = "loop"
     /\ (mpc = "loop" /\ mpc' # "loop" /\ mErr.code = "EPROTO" /\ running_)
          => (mpc' = "connect" /\ serialPort_' = -1)
     /\ (mpc = "connect" /\ mpc' # "connect" /\ serialPort_ = -1 /\ running_)
          => connects' = connects + 1]_vars

\* the only telegram had a malformed line: no device or values message was
\* ever published, "disconnected" was reported and the port is open again
C21_Witness ==
  /\ telegramKind = "malformed line"
  /\ telegrams = MaxTelegrams
  /\ availCalls = <<"connected", "disconnected", "connected">>
  /\ acceptLog["device"] = <<>> /\ acceptLog["values"] = <<>>
  /\ updateCallback_ = "set" /\ deviceCallback_ = "set"
  /\ fdOpen /\ serialPort_ >= 0
  /\ connects = 2

\* C22: after a transient error the step that brings the worker back into
\* tryConnect is a timed wait.  The only timed wait of the Meter is the one
\* at the end of a successful tryConnect (position "cwait"); runLoop and
\* handleResult contain none, so the loop head goes straight from a handled
\* transient error to the next tryConnect.
C22_BackoffBeforeReconnect ==
  [][(/\ mpc' = "connect" /\ mpc # "connect"
      /\ mErr.code # "ok"
      /\ deduceSeverity(mErr.code) = "TRANSIENT")
       => mpc = "cwait"]_vars

\* C33: every close() of the serial descriptor is the close of a descriptor
\* that is open: disconnect() (the only step that resets serialPort_ to -1)
\* never closes a descriptor that tryConnect has closed already.
C33_ClosedExactlyOnce ==
  [][(serialPort_ # -1 /\ serialPort_' = -1) => fdOpen]_vars

\* C15: running changes only from true to false (so at most once and never
\* back to true; a shutdown() or signal after that changes nothing), and
\* handler.wait() returns only when running is false.
C15_RunningFallsOnce ==
  [][/\ (running_' # running_) => (running_ /\ ~running_')
     /\ (mainPc = "wait" /\ mainPc' # "wait") => ~running_
     /\ (mpc = "handle" /\ mpc' # "handle" /\ ~running_) => ~running_']_vars

\* a signal has stopped the process, wait() has returned, and the Meter
\* worker is about to call shutdown() for a fatal error once more
C15_Witness ==
  /\ ~running_
  /\ mainPc = "meter_join"
  /\ mpc = "handle"
  /\ deduceSeverity(mErr.code) = "FATAL"


\* C39: when the values of a telegram fail to parse (EPROTO from
\* updateValuesAndJson), the device callback has not been invoked for that
\* telegram.
C39_BothCallbacksOrNeither ==
  (mpc = "handle" /\ mErr = [code |-> "EPROTO", from |-> "values"])
    => \A i \in DOMAIN iterCalls : iterCalls[i] # "device"

\* C18: whenever updateCallback has been invoked in the current loop
\* iteration, the loop has passed the device callback site of the same
\* iteration before, where deviceCallback was invoked if it was set; the
\* update callback is the last call of the iteration.
C18_DeviceBeforeUpdate ==
  \A i \in DOMAIN iterCalls :
    iterCalls[i] = "update"
      => /\ i = 2 /\ Len(iterCalls) = 2
         /\ iterCalls[1] \in {"device", "device_unset"}

\* both callbacks have been invoked in one iteration
C18_Witness ==
  /\ iterCalls = <<"device", "update">>
  /\ mpc = "loop"

-----------------------------------------------------------------------------
(* The Modbus server worker and its clients, with the signal handler      *)

InitServer ==
  /\ running_ = TRUE
  /\ MqttInit
  /\ cfg_queueSize = 1
  /\ SlaveInitWith(FALSE)
  /\ \E tcp \in BOOLEAN : ServerInitWith(tcp)
  /\ SysInit
  /\ PackIdle
  /\ SigIdle
  /\ ValIdle
  /\ recording = FALSE

NextServer ==
  \/ ServerWhile \/ TcpPoll \/ TcpAccept \/ TcpErrCheck \/ RtuReceive
  \/ ServerHandle \/ TcpShutdownSocket \/ TcpJoin
  \/ \E c \in Clients : ClientWhile(c)
  \/ \E c \in Clients : ClientReceive(c)
  \/ \E c \in Clients : ClientReply(c)
  \/ SlaveDestroy
  \/ Signal

SpecServer == InitServer /\ [][NextServer]_vars

\* C14: once the server worker has exited because of a socket error on the
\* TCP listening socket, a failed poll on it, or EBADF/EIO from the RTU
\* receive, running is false.
C14_FatalStopSignalsShutdown ==
  (spc = "exited" /\ sStop \in {"socket error", "poll failed", "serial error"})
    => ~running_

-----------------------------------------------------------------------------
(* All workers that poll running, under fair scheduling.  main() has not   *)
(* registered the Meter callbacks: the worker threads are started by the   *)
(* constructors, before main.cpp:122-136.                                  *)

\* C24: the TCP server worker has returned only if every client worker it
\* spawned has returned (and was joined), and ~ModbusSlave has completed
\* only if the server worker has returned: no client worker is at any
\* position of its loop then, and none is spawned afterwards.
C24_ClientsJoinedBeforeExit ==
  /\ (cfg_tcp /\ spc = "exited") => \A c \in Clients : cpc[c] \in {"none", "closed"}
  /\ slaveDestroyed =>
       /\ spc = "exited"
       /\ \A c \in Clients : cpc[c] \in {"none", "closed"}
       /\ \A c \in Clients : c <= clientThreads_ <=> cpc[c] = "closed"

\* the slave was destroyed after a client that had been served was joined
C24_Witness ==
  /\ slaveDestroyed /\ cfg_tcp /\ ~running_
  /\ clientThreads_ = MaxClients
  /\ \A c \in Clients : cpc[c] = "closed"
  /\ \E c \in Clients : rc[c] = "request"

\* The TCP server worker and its client workers with the steady clock
\* advancing between their steps.
InitIdle == InitServer /\ cfg_tcp

NextIdle ==
  \/ ServerWhile \/ TcpPoll \/ TcpAccept \/ TcpErrCheck
  \/ ServerHandle \/ TcpShutdownSocket \/ TcpJoin
  \/ \E c \in Clients : ClientWhile(c)
  \/ \E c \in Clients : ClientReceive(c)
  \/ \E c \in Clients : ClientReply(c)
  \/ SlaveDestroy
  \/ Signal
  \/ Tick

SpecIdle == InitIdle /\ [][NextIdle]_vars

\* C23: the idle timer of a TCP client starts when the client worker is
\* spawned and restarts at every received request; a receive timeout closes
\* the connection exactly when the time since then exceeds idle_timeout and
\* otherwise returns to the loop head; no other result of the receive
\* touches the timer.
C23_IdleTimeout ==
  [][\A c \in Clients :
       /\ (cpc[c] = "none" /\ cpc'[c] # "none") => lastActivity'[c] = now
       /\ (cpc[c] = "receive" /\ cpc'[c] # "receive") =>
            /\ rc'[c] = "request" =>
                 (lastActivity'[c] = now /\ cpc'[c] = "reply")
            /\ rc'[c] # "request" => lastActivity'[c] = lastActivity[c]
            /\ rc'[c] \in TimeoutErrnos =>
                 /\ now - lastActivity[c] > cfg_idleTimeout
                      => cpc'[c] = "closed"
                 /\ now - lastActivity[c] <= cfg_idleTimeout
                      => cpc'[c] = "while"
       /\ (cpc[c] # "receive" /\ cpc[c] # "none")
            => lastActivity'[c] = lastActivity[c]]_vars

\* a client that connected or sent its last request after time 0 was closed
\* by the first timeout later than idle_timeout after that
C23_Witness ==
  \E c \in Clients :
    /\ cpc[c] = "closed"
    /\ rc[c] \in TimeoutErrnos
    /\ lastActivity[c] > 0
    /\ now - lastActivity[c] = cfg_idleTimeout + 1

\* a timeout at exactly idle_timeout leaves the client connected
C23_WitnessAtLimit ==
  \E c \in Clients :
    /\ cpc[c] = "while"
    /\ rc[c] \in TimeoutErrnos
    /\ now - lastActivity[c] = cfg_idleTimeout

NextStop == runLoop \/ NextServer

\* Every thread that can take a step eventually takes one: the scheduler
\* is fair, and every blocking call of a worker (read with VTIME, poll with
\* 500 ms, modbus_receive with the indication timeout, wait_for with 1 s)
\* returns.
FairStop ==
  /\ WF_vars(MeterLoop) /\ WF_vars(MeterConnect) /\ WF_vars(MeterAvail)
  /\ WF_vars(MeterConnectWait) /\ WF_vars(MeterHandle) /\ WF_vars(MeterRead)
  /\ WF_vars(MeterDevice) /\ WF_vars(MeterDeviceCallback)
  /\ WF_vars(MeterValues) /\ WF_vars(MeterValuesCallback)
  /\ WF_vars(ServerWhile) /\ WF_vars(TcpPoll) /\ WF_vars(TcpAccept)
  /\ WF_vars(TcpErrCheck) /\ WF_vars(RtuReceive) /\ WF_vars(ServerHandle)
  /\ \A c \in Clients :
       WF_vars(ClientWhile(c)) /\ WF_vars(ClientReceive(c))
         /\ WF_vars(ClientReply(c))

SpecStop == InitServer /\ [][NextStop]_vars /\ FairStop

MeterLeft == mpc = "exited"
ServerLeft == spc \in {"shutdown", "join", "exited"}
ClientsLeft == \A c \in Clients : cpc[c] \in {"none", "closed"}

\* C16: once running is false, the Meter worker, the Modbus server worker
\* and every TCP client worker eventually have left their loops.
C16_WorkersLeave ==
  (~running_) ~> (MeterLeft /\ ServerLeft /\ ClientsLeft)

\* after a shutdown in TCP mode the Meter worker, the accept loop and the
\* client worker it had spawned have all finished
C16_Witness ==
  /\ ~running_
  /\ sStop = "not running"
  /\ cfg_tcp
  /\ clientThreads_ = MaxClients
  /\ MeterLeft /\ spc = "exited" /\ ClientsLeft
  /\ telegrams = MaxTelegrams

-----------------------------------------------------------------------------
(* MqttClient under fair scheduling: its worker, the callers of publish(), *)
(* the library callbacks, the signal handler and ~MqttClient               *)

InitQuit ==
  /\ running_ = TRUE
  /\ MqttInit
  /\ cfg_queueSize = 1
  /\ SlaveInitWith(FALSE)
  /\ ServerInitWith(TRUE)
  /\ SysInit
  /\ PackIdle
  /\ SigIdle
  /\ ValIdle
  /\ recording = FALSE

\* The worker thread takes every step it can take (a blocked lock() or a
\* mosquitto_publish call returns), and main, having returned from
\* handler.wait(), reaches and runs ~MqttClient.  Nothing is assumed about
\* signals, publish() calls or the broker connection.
FairQuit ==
  /\ WF_vars(RunWhile) /\ WF_vars(RunPredConnected) /\ WF_vars(RunPredRunning)
  /\ WF_vars(RunBlock) /\ WF_vars(RunWake) /\ WF_vars(RunPostRunning)
  /\ WF_vars(RunPostConnected) /\ WF_vars(RunInner) /\ WF_vars(RunPublish)
  /\ WF_vars(RunPublished) /\ WF_vars(RunFailed)
  /\ WF_vars(MqttDestroy) /\ WF_vars(MqttDtorJoin)

SpecQuit == InitQuit /\ [][NextMqtt]_vars /\ FairQuit

\* the worker is blocked in cv_.wait with nothing to send, shutdown has been
\* signalled and ~MqttClient has not sent its notify_all yet
BlockedAtShutdown ==
  /\ ~running_
  /\ wpc = "sleeping"
  /\ ~(connected_ /\ hasQueuedMessages)
  /\ mqttDtor = "none"

\* C17: a worker that is blocked in the wait with nothing to send when
\* shutdown is signalled eventually terminates and ~MqttClient completes its
\* join; after shutdown the worker starts no further pass from the head of
\* its loop.
C17_WorkerWakesAndStops ==
  /\ BlockedAtShutdown ~> (wpc = "stopped" /\ mqttDtor = "done")
  /\ [][(~running_ /\ wpc = "while") => wpc' \in {"while", "stopped"}]_vars

\* the worker went to sleep with nothing queued, shutdown was signalled, no
\* publish() was ever called, and the notify_all of ~MqttClient has reached
\* the sleeping worker
C17_Witness ==
  /\ ~running_
  /\ wpc = "sleeping"
  /\ wNotified
  /\ mqttDtor = "joining"
  /\ lastPublish.n = 0
  /\ ~connected_

\* the same without the premise that the worker was already blocked: the
\* notify_all of ~MqttClient can come between the worker's evaluation of the
\* predicate and its blocking
C17_AnyWorkerStops ==
  (~running_ /\ wpc \in {"blocking", "sleeping"})
    ~> (wpc = "stopped" /\ mqttDtor = "done")

-----------------------------------------------------------------------------
(* One call of readTelegram on every byte stream of up to MaxReads reads   *)

\* every topic is empty-handed or the broker has the last accepted message
Converged ==
  \A t \in Topics :
    acceptLog[t] = <<>>
      \/ acceptLog[t][Len(acceptLog[t])] \in Messages(brokerLog[t])

\* C30: if the connection is up whenever a message has been accepted, no
\* publish call to the library ever fails and no shutdown is signalled, then
\* eventually the last message accepted for every topic has been handed to
\* the broker, and it stays so.
C30_LastAcceptedDelivered ==
  (/\ []((\E t \in Topics : acceptLog[t] # <<>>) => connected_)
   /\ []~linkFaults
   /\ []running_) => <>[]Converged

NextRead == ReadCall \/ ReadLoop \/ ReadCheck \/ Signal

SpecRead == InitQuit /\ [][NextRead]_vars

\* position of the first '/' in a byte sequence, 0 if there is none
FirstSlash(seq) ==
  IF \E i \in DOMAIN seq : seq[i] = "/"
    THEN CHOOSE i \in DOMAIN seq :
           seq[i] = "/" /\ \A j \in 1..(i - 1) : seq[j] # "/"
    ELSE 0

\* C19: an accepted telegram starts with '/', has '!' at index len-3, has
\* between 3 and TELEGRAM_SIZE bytes, and is the part of the received bytes
\* that starts at the first '/': no byte before it is part of the telegram.
C19_AcceptedTelegramFramed ==
  telegram_ # <<>> =>
    /\ telegram_[1] = "/"
    /\ Len(telegram_) >= 3 /\ Len(telegram_) <= TELEGRAM_SIZE
    /\ telegram_[Len(telegram_) - 2] = "!"
    /\ FirstSlash(received) > 0
    /\ telegram_ = SubSeq(received, FirstSlash(received),
                          FirstSlash(received) + Len(telegram_) - 1)

\* a telegram of full size was accepted from a stream that started with
\* other bytes and came in more than one read
C19_Witness ==
  /\ rpc = "ok"
  /\ Len(telegram_) = TELEGRAM_SIZE
  /\ received[1] # "/"
  /\ reads > 1

----------------------------------------------------------------------------
(* packToModbus as a function: every call of ScaledCalls, StringCalls and   *)
(* IntegerCalls on every mapping of PriorTabs                               *)

InitPack ==
  /\ running_ = TRUE
  /\ MqttInit
  /\ cfg_queueSize = 1
  /\ SlaveInitWith(FALSE)
  /\ ServerInitWith(TRUE)
  /\ SysInit
  /\ tab \in PriorTabs
  /\ packArg = NoPack
  /\ packRet = "none"
  /\ SigIdle
  /\ ValIdle
  /\ recording = FALSE

NextPack == PackScaled \/ PackString \/ PackInteger \/ PackReset

SpecPack == InitPack /\ [][NextPack]_vars

Abs(x) == IF x < 0 THEN -x ELSE x

\* n is the integer nearest to x / 1000, halves away from zero
IsRound(n, x) ==
  /\ 2 * Abs(n * Milli - x) <= Milli
  /\ 2 * Abs(n * Milli - x) = Milli => Abs(n * Milli) > Abs(x)

Nearest(x) == CHOOSE n \in {x \div Milli, x \div Milli + 1} : IsRound(n, x)

\* the values a register type can hold (the model has no value above 2^31)
InRange(type, n) ==
  IF type = "INT16" THEN n >= -32768 /\ n <= 32767
  ELSE IF type = "UINT16" THEN n >= 0 /\ n <= 65535
  ELSE n >= 0

\* the number read back from the value register(s), most significant
\* word first, INT16 as two's complement
StoredValue(regs, reg) ==
  IF reg.TYPE = "INT16"
    THEN (IF regs[reg.ADDR] >= 32768 THEN regs[reg.ADDR] - 65536
          ELSE regs[reg.ADDR])
  ELSE IF reg.TYPE = "UINT16" THEN regs[reg.ADDR]
  ELSE regs[reg.ADDR] * 65536 + regs[reg.ADDR + 1]

\* the real value of the last scale-factor call times 10^decimals, in
\* thousandths
ScaledArg == packArg.value * Pow(10, packArg.decimals)

\* C25: after a scale-factor call whose rounded value fits the target type
\* the value register(s) hold round(v * 10^d) and the scale-factor register
\* holds -d as int16 (0x0000, 0xFFFF, 0xFFFE, 0xFFFD for d = 0 .. 3);
\* 259.20 W with no decimals gives M20X::W = 259 and M20X::W_SF = 0.
C25_ScaledValueAndFactor ==
  (packArg.kind = "scaled" /\ packRet = "ok") =>
    /\ InRange(packArg.reg.TYPE, Nearest(ScaledArg))
         => IsRound(StoredValue(tab, packArg.reg), ScaledArg)
    /\ tab[packArg.sf.ADDR] =
         (CASE packArg.decimals = 0 -> 0
            [] packArg.decimals = 1 -> 65535
            [] packArg.decimals = 2 -> 65534
            [] packArg.decimals = 3 -> 65533)
    /\ (packArg.reg = M20X_W /\ packArg.value = 259200
          /\ packArg.decimals = 0)
         => (tab[40087] = 259 /\ tab[40091] = 0)

\* -100.5 W with two decimals was packed over a mapping with all bits set:
\* -10050 as int16 and -2 as scale factor
C25_Witness ==
  /\ packArg.kind = "scaled" /\ packRet = "ok"
  /\ packArg.reg = M20X_W /\ packArg.value = -100500 /\ packArg.decimals = 2
  /\ tab[40087] = 55486 /\ tab[40091] = 65534
  /\ tab[40088] = 65535

\* C26: a rounded value outside the target type is stored as the nearest
\* bound of the type (32767 or -32768 for int16, 0 for a negative value in
\* an unsigned type).
C26_ClampedToBound ==
  (/\ packArg.kind = "scaled" /\ packRet = "ok"
   /\ ~InRange(packArg.reg.TYPE, Nearest(ScaledArg))) =>
    IF packArg.reg.TYPE = "INT16"
      THEN tab[packArg.reg.ADDR] =
             (IF Nearest(ScaledArg) > 0 THEN 32767 ELSE 32768)
      ELSE \A i \in 0 .. packArg.reg.NB - 1 : tab[packArg.reg.ADDR + i] = 0

\* the bytes of a register region in address order, high byte first
RegionBytes(regs, reg) ==
  [i \in 1 .. 2 * reg.NB |->
     IF i % 2 = 1 THEN regs[reg.ADDR + (i - 1) \div 2] \div 256
     ELSE regs[reg.ADDR + (i - 1) \div 2] % 256]

\* s followed by NULs up to n bytes
Pad(s, n) == [i \in 1 .. n |-> IF i <= Len(s) THEN s[i] ELSE 0]

\* C27: after a string of at most 2*NB bytes was packed, the region read
\* back byte by byte (high byte of each register first) is the string
\* followed by NULs, whatever the region held before.
C27_StringRoundTrip ==
  (packArg.kind = "string" /\ packRet = "ok") =>
    /\ Len(packArg.value) <= 2 * packArg.reg.NB
    /\ RegionBytes(tab, packArg.reg) = Pad(packArg.value, 2 * packArg.reg.NB)

\* "1.2" was packed over a region that held 'A' characters: 0x312E, 0x3200
\* and six zero registers; the registers outside the region are untouched
C27_Witness ==
  /\ packArg.kind = "string" /\ packRet = "ok"
  /\ packArg.value = <<49, 46, 50>>
  /\ tab[40044] = 12590 /\ tab[40045] = 12800
  /\ \A a \in 40046 .. 40051 : tab[a] = 0
  /\ tab[40052] = 16705

Reverse(s) == [i \in 1 .. Len(s) |-> s[Len(s) + 1 - i]]

\* C28: after a 32-bit or 64-bit integer was packed, the bytes of its
\* registers in address order are the bytes of the integer from the most
\* significant to the least significant; 0x53756E53 is stored as 0x5375,
\* 0x6E53.
C28_IntegerRoundTrip ==
  (packArg.kind = "integer" /\ packRet = "ok") =>
    /\ packArg.reg.NB * 2 = Len(packArg.value)
    /\ RegionBytes(tab, packArg.reg) = Reverse(packArg.value)
    /\ packArg.value = <<83, 110, 117, 83>>
         => (tab[40000] = 21365 /\ tab[40001] = 28243)

\* 0x8877665544332211 was packed into four registers
C28_Witness ==
  /\ packArg.kind = "integer" /\ packRet = "ok"
  /\ packArg.reg = UINT64_REG
  /\ packArg.value = <<17, 34, 51, 68, 85, 102, 119, 136>>
  /\ tab[40097] = 34935 /\ tab[40098] = 26197
  /\ tab[40099] = 17459 /\ tab[40100] = 8721


----------------------------------------------------------------------------
(* The signal handler against wait() and shutdown()                        *)

InitSignal ==
  /\ running_ = TRUE
  /\ MqttInit
  /\ cfg_queueSize = 1
  /\ SlaveInitWith(FALSE)
  /\ ServerInitWith(TRUE)
  /\ SysInit
  /\ PackIdle
  /\ SigIdle
  /\ ValIdle
  /\ recording = FALSE

NextSignal ==
  \/ WaitLock \/ WaitPred \/ WaitWake
  \/ ShutdownCall \/ ShutdownLock \/ ShutdownStore \/ ShutdownUnlock
  \/ ShutdownNotify
  \/ \E t \in Threads :
       \/ Deliver(t) \/ HandlerCheck(t) \/ HandlerLock(t)
       \/ HandlerStore(t) \/ HandlerUnlock(t) \/ HandlerNotify(t)

SpecSignal == InitSignal /\ [][NextSignal]_vars

\* C35: no signal handler ever waits for mtx_ on top of the thread that
\* holds mtx_ (a wait that cannot end: wait() then never returns).
C35_SignalNeverDeadlocks ==
  \A t \in Threads : ~(hpc[t] = "lock" /\ mtx_ = t)


----------------------------------------------------------------------------
(* The ModbusSlave constructor, modbus_slave.cpp:19-35                     *)

\* errno of a failed modbus_tcp_pi_listen / modbus_connect (line 115-120),
\* and ENOMEM of a failed allocation (lines 57-59, 93-97)
ListenErrnos == {"EADDRINUSE", "EACCES", "ENOMEM"}

\* line 27-34: listenAction = handleResult(startListener()); the worker is
\* started only when the action is NONE.  handleResult (125-152) signals
\* shutdown for FATAL and only logs for TRANSIENT.
SlaveConstruct ==
  /\ spc = "ctor"
  /\ \/ /\ spc' = "while"
        /\ sErr' = sErr
        /\ UNCHANGED running_
     \/ \E e \in ListenErrnos :
          /\ sErr' = e
          /\ spc' = "unstarted"
          /\ running_' = IF deduceSeverity(e) = "FATAL" THEN FALSE
                         ELSE running_
  /\ UNCHANGED <<revents, clientThreads_, cpc, sStop, lastActivity, rc>>
  /\ serverFrame

InitListen ==
  /\ running_ = TRUE
  /\ MqttInit
  /\ cfg_queueSize = 1
  /\ SlaveInitWith(FALSE)
  /\ \E tcp \in BOOLEAN :
       /\ cfg_tcp = tcp
       /\ spc = "ctor"
       /\ revents = {}
       /\ sErr = "ok"
       /\ clientThreads_ = 0
       /\ cpc = [c \in Clients |-> "none"]
       /\ sStop = "none"
       /\ now = 0
       /\ lastActivity = [c \in Clients |-> 0]
       /\ rc = [c \in Clients |-> "none"]
       /\ slaveDestroyed = FALSE
  /\ SysInit
  /\ PackIdle
  /\ SigIdle
  /\ ValIdle
  /\ recording = FALSE

NextListen == SlaveConstruct \/ NextServer

SpecListen == InitListen /\ [][NextListen]_vars

\* C38: when the listener could not be started the process does not stay
\* up without a Modbus worker: shutdown has been signalled (the code has no
\* step that tries to listen again).
C38_ListenFailureHandled ==
  spc = "unstarted" => ~running_


----------------------------------------------------------------------------
(* The derived quantities handed to the update callback                    *)

InitValues ==
  /\ running_ = TRUE
  /\ MqttInit
  /\ cfg_queueSize = 1
  /\ SlaveInitWith(FALSE)
  /\ ServerInitWith(TRUE)
  /\ SysInit
  /\ PackIdle
  /\ SigIdle
  /\ cfg_grid \in {0} \cup GridPowerFactors
  /\ vpc = "parse"
  /\ values_ = NoValuesYet
  /\ cbValues = NoValuesYet
  /\ recording = FALSE

NextValues == ParseValues \/ UpdateCallback

SpecValues == InitValues /\ [][NextValues]_vars

\* C40: the Values passed to the update callback have a non-negative
\* current, non-negative phase currents and a non-negative phVoltage.
C40_NonNegativeValues ==
  /\ NonNegative(cbValues.current)
  /\ \A p \in Phases : NonNegative(cbValues.phaseCurrent[p])
  /\ NonNegative(cbValues.phVoltage)

=============================================================================
